---- MODULE Spec2Model ----
(***************************************************************************)
(* Verification model of the nba-analytics repository: the retrieval       *)
(* layer (retry wrapper, time-bounded memoization, local-file fallback),   *)
(* the statistics catalogue (formula registry and formulas) and the        *)
(* team/opponent merge.                                                    *)
(***************************************************************************)
EXTENDS Integers, Sequences, FiniteSets, TLC

VARIABLES
    now,        \* wall clock in seconds (time.sleep / TTLCache timer)
    remote,     \* version of the table the stats provider currently serves
    cache,      \* utils/data.py module-level TTLCache: key -> entry
    last,       \* record of the most recent retrieve_team_games call
    ncalls,     \* number of retrieve_team_games calls made so far
    gcache,     \* data/utils.py module-level TTLCache: key -> entry
    files,      \* local parquet/pickle files: path -> content
    glast,      \* record of the most recent TeamGameData.get_team_games call
    cat,        \* the catalogue object under construction / in use
    row,        \* box-score row handed to the statistics layer
    table,      \* team-game table handed to the merge
    out,        \* result of the last statistics-layer operation
    imputation_map, \* TeamGameDataCleaner.imputation_map: team -> game -> stat -> value
    pool        \* thread-pool fan-out: the submitted tasks and the caller's position

vars == <<now, remote, cache, last, ncalls, gcache, files, glast, cat, row, table, out,
          imputation_map, pool>>

retrieverVars == <<now, remote, cache, last, ncalls>>
gameVars == <<gcache, files, glast>>
statVars == <<cat, row, table, out>>
auxVars == <<imputation_map, pool>>

None == "None"

\* a value that is a DataFrame or Python's None
NoDf == [isdf |-> FALSE, rows |-> <<>>]
Df(rows) == [isdf |-> TRUE, rows |-> rows]
IsTable(x) == x.isdf

(***************************************************************************)
(* Numbers.  numpy computes in floating point; the model computes in exact *)
(* fractions <<n, d>> in lowest terms with d > 0, and keeps the three      *)
(* values a division by zero produces: NaN = <<0, 0>>, +inf = <<1, 0>>,    *)
(* -inf = <<-1, 0>>.                                                       *)
(***************************************************************************)
Abs(x) == IF x < 0 THEN -x ELSE x
Sign(x) == IF x < 0 THEN -1 ELSE IF x > 0 THEN 1 ELSE 0

RECURSIVE GCD(_, _)
GCD(a, b) == IF b = 0 THEN a ELSE GCD(b, a % b)

Norm(n, d) ==
    IF d = 0 THEN <<Sign(n), 0>>
    ELSE LET g == GCD(Abs(n), Abs(d)) IN <<(Sign(d) * n) \div g, Abs(d) \div g>>

NaN == <<0, 0>>
R(n) == <<n, 1>>
IsNaN(a) == a = NaN
IsFinite(a) == a[2] # 0

RMul(a, b) == Norm(a[1] * b[1], a[2] * b[2])
RDiv(a, b) == Norm(a[1] * b[2], a[2] * b[1])
RAdd(a, b) ==
    IF IsFinite(a) /\ IsFinite(b) THEN Norm(a[1] * b[2] + b[1] * a[2], a[2] * b[2])
    ELSE IF IsNaN(a) \/ IsNaN(b) THEN NaN
    ELSE IF IsFinite(a) THEN b
    ELSE IF IsFinite(b) \/ a = b THEN a
    ELSE NaN
RNeg(a) == <<-a[1], a[2]>>
RSub(a, b) == RAdd(a, RNeg(b))
RLeq(a, b) == a[1] * b[2] <= b[1] * a[2]

(***************************************************************************)
(* The tables the provider serves (LeagueGameFinder(...).get_data_frames() *)
(* [0]): one row per game, most recent first, FG3_PCT undefined when no    *)
(* three-pointer was attempted.                                            *)
(***************************************************************************)
RemoteTable(v) ==
    IF v = "v1"
    THEN Df(<< [GAME_DATE |-> 2, MATCHUP |-> "ATL @ BOS", WL |-> "L", FG3M |-> 0, FG3A |-> 0,
             FG3_PCT |-> NaN],
            [GAME_DATE |-> 1, MATCHUP |-> "ATL vs. BOS", WL |-> "W", FG3M |-> 1, FG3A |-> 2,
             FG3_PCT |-> <<1, 2>>] >>)
    ELSE Df(<< [GAME_DATE |-> 3, MATCHUP |-> "ATL vs. NYK", WL |-> "W", FG3M |-> 0, FG3A |-> 0,
             FG3_PCT |-> NaN],
            [GAME_DATE |-> 2, MATCHUP |-> "ATL @ BOS", WL |-> "L", FG3M |-> 0, FG3A |-> 0,
             FG3_PCT |-> NaN],
            [GAME_DATE |-> 1, MATCHUP |-> "ATL vs. BOS", WL |-> "W", FG3M |-> 1, FG3A |-> 2,
             FG3_PCT |-> <<1, 2>>] >>)

\* sort_values("GAME_DATE", ascending=True).reset_index(drop=True)
RECURSIVE InsertByDate(_, _)
InsertByDate(r, t) ==
    IF t = <<>> THEN <<r>>
    ELSE IF r.GAME_DATE < Head(t).GAME_DATE THEN <<r>> \o t
    ELSE <<Head(t)>> \o InsertByDate(r, Tail(t))

RECURSIVE SortByDate(_)
SortByDate(t) == IF t = <<>> THEN <<>> ELSE InsertByDate(Head(t), SortByDate(Tail(t)))

\* MATCHUP.str.contains("vs.")
IsHome(matchup) == matchup \in {"ATL vs. BOS", "ATL vs. NYK"}

\* TeamGameData._clean_team_games without its save: dates ascending, WIN and
\* HOME derived, FG3_PCT forced to 0 where FG3A == 0.
CleanRowKeepPct(r) ==
    [GAME_DATE |-> r.GAME_DATE, MATCHUP |-> r.MATCHUP, WL |-> r.WL, FG3M |-> r.FG3M,
     FG3A |-> r.FG3A, FG3_PCT |-> r.FG3_PCT, WIN |-> (r.WL = "W"), HOME |-> IsHome(r.MATCHUP)]

CleanRow(r) ==
    [GAME_DATE |-> r.GAME_DATE, MATCHUP |-> r.MATCHUP, WL |-> r.WL, FG3M |-> r.FG3M,
     FG3A |-> r.FG3A, FG3_PCT |-> IF r.FG3A = 0 THEN R(0) ELSE r.FG3_PCT,
     WIN |-> (r.WL = "W"), HOME |-> IsHome(r.MATCHUP)]

CleanTable(t) == Df(SortByDate([i \in 1..Len(t.rows) |-> CleanRow(t.rows[i])]))

(***************************************************************************)
(* Bounds of the model.                                                    *)
(***************************************************************************)
MaxTime == 450
MaxCalls == 3
MaxGameCalls == 2
TeamIds == {1610612737, 1610612738}
SeasonTypes == {"Regular Season"}
TableVersions == {"v1", "v2"}
AdvanceSteps == {150}

(***************************************************************************)
(* Program constants.                                                      *)
(***************************************************************************)
RETRIES == 3
SLEEP_SECONDS == 30
CACHE_TTL == 300
CACHE_MAXSIZE == 128

AttemptOutcomes == {"ok", "RequestException", "OtherException"}
\* What the provider does to the successive requests of one call: it fails the
\* first k of them with a transient error and answers the rest with t.
AttemptPlan(k, t) == [i \in 1..(RETRIES + 1) |-> IF i <= k THEN "RequestException" ELSE t]

GameAttemptSeqs ==
    {AttemptPlan(0, "ok"), AttemptPlan(1, "ok"), AttemptPlan(0, "OtherException"),
     AttemptPlan(RETRIES + 1, "ok")}

AttemptSeqs ==
    {[i \in 1..(RETRIES + 1) |-> IF i <= k THEN "RequestException" ELSE t] :
        k \in 0..(RETRIES + 1), t \in {"ok", "OtherException"}}

(***************************************************************************)
(* utils/data.py retry: the while loop of retry_wrapper.  outs[i] is what  *)
(* the i-th invocation of the wrapped function does; data is what it       *)
(* returns when it succeeds.  The result records the invocations made, the *)
(* sleeps taken and how the wrapper ends.                                  *)
(***************************************************************************)
RECURSIVE RetryLoopBackoff(_, _, _, _)
RetryLoopBackoff(attempts, outs, data, sleeps) ==
    IF attempts < RETRIES
    THEN LET o == outs[attempts + 1] IN
         CASE o = "ok" ->
                [kind |-> "return", value |-> data, exc |-> None,
                 calls |-> attempts + 1, sleeps |-> sleeps]
           [] o = "RequestException" ->
                RetryLoopBackoff(attempts + 1, outs, data,
                                 Append(sleeps, SLEEP_SECONDS * (attempts + 1)))
           [] OTHER ->
                [kind |-> "raise", value |-> NoDf, exc |-> o,
                 calls |-> attempts + 1, sleeps |-> sleeps]
    ELSE [kind |-> "return", value |-> NoDf, exc |-> None,
          calls |-> attempts, sleeps |-> sleeps]

RECURSIVE RetryLoop(_, _, _, _)
RetryLoop(attempts, outs, data, sleeps) ==
    IF attempts < RETRIES
    THEN LET o == outs[attempts + 1] IN
         CASE o = "ok" ->
                [kind |-> "return", value |-> data, exc |-> None,
                 calls |-> attempts + 1, sleeps |-> sleeps]
           [] o = "RequestException" ->
                RetryLoop(attempts + 1, outs, data, Append(sleeps, SLEEP_SECONDS))
           [] OTHER ->
                [kind |-> "raise", value |-> NoDf, exc |-> o,
                 calls |-> attempts + 1, sleeps |-> sleeps]
    ELSE [kind |-> "return", value |-> NoDf, exc |-> None,
          calls |-> attempts, sleeps |-> sleeps]

RECURSIVE RetryLoopCatchAll(_, _, _, _)
RetryLoopCatchAll(attempts, outs, data, sleeps) ==
    IF attempts < RETRIES
    THEN IF outs[attempts + 1] = "ok"
         THEN [kind |-> "return", value |-> data, exc |-> None,
               calls |-> attempts + 1, sleeps |-> sleeps]
         ELSE RetryLoopCatchAll(attempts + 1, outs, data, Append(sleeps, SLEEP_SECONDS))
    ELSE [kind |-> "return", value |-> NoDf, exc |-> None,
          calls |-> attempts, sleeps |-> sleeps]

retry_wrapper_catch_all(outs, data) == RetryLoopCatchAll(0, outs, data, <<>>)

retry_wrapper_backoff(outs, data) == RetryLoopBackoff(0, outs, data, <<>>)

retry_wrapper(outs, data) == RetryLoop(0, outs, data, <<>>)

RECURSIVE SumSeq(_)
SumSeq(s) == IF s = <<>> THEN 0 ELSE Head(s) + SumSeq(Tail(s))

(***************************************************************************)
(* cachetools TTLCache(maxsize=128, ttl=300) and the cached decorator.     *)
(* An entry is NoEntry or [value, at, expires], at being the time it was   *)
(* stored.  At the instant t = expires                                     *)
(* the library version decides whether the entry is still served, so the   *)
(* model takes that instant either way (atEdge).                           *)
(***************************************************************************)
NoEntry == [value |-> NoDf, at |-> -1, expires |-> -1]

Expired(entry, t, atEdge) ==
    entry = NoEntry \/ t > entry.expires \/ (t = entry.expires /\ atEdge)

TtlLong == CACHE_TTL + SLEEP_SECONDS
Ttl == CACHE_TTL

\* TTLCache.__setitem__: drop expired entries, evict the oldest while full,
\* then store the value with expires = timer() + ttl.
Oldest(c) ==
    CHOOSE k \in DOMAIN c : c[k] # NoEntry /\
        \A j \in DOMAIN c : c[j] # NoEntry => c[k].expires <= c[j].expires

Live(c) == {k \in DOMAIN c : c[k] # NoEntry}

CacheSet(c, k, v, t, atEdge) ==
    LET purged == [j \in DOMAIN c |-> IF Expired(c[j], t, atEdge) THEN NoEntry ELSE c[j]]
        room == IF k \notin Live(purged) /\ Cardinality(Live(purged)) >= CACHE_MAXSIZE
                THEN [purged EXCEPT ![Oldest(purged)] = NoEntry]
                ELSE purged
    IN [room EXCEPT ![k] = [value |-> v, at |-> t, expires |-> t + Ttl]]

Keys == TeamIds \X SeasonTypes

\* the instants at which a call started at t may meet an entry's expiry
EdgeChoices(c, t) ==
    IF \E k \in DOMAIN c : c[k] # NoEntry /\ c[k].expires >= t
                            /\ c[k].expires <= t + RETRIES * SLEEP_SECONDS
    THEN BOOLEAN ELSE {FALSE}

\* age: seconds since the result memoized for the key was stored (-1: none is)
NoCall == [key |-> None, hit |-> FALSE, outs |-> <<>>, calls |-> 0,
           sleeps |-> <<>>, kind |-> "none", value |-> NoDf, exc |-> None,
           age |-> -1, memo |-> NoDf, served |-> NoDf]

(***************************************************************************)
(* TeamDataRetriever.retrieve_team_games: @cached(cache) over @retry over  *)
(* the LeagueGameFinder request.  One action is one call.                  *)
(***************************************************************************)
CachedRetry(c, k, t, outs, data, atEdge) ==
    IF ~Expired(c[k], t, atEdge)
    THEN [cache |-> c, now |-> t, hit |-> TRUE,
          res |-> [kind |-> "return", value |-> c[k].value, exc |-> None,
                   calls |-> 0, sleeps |-> <<>>]]
    ELSE LET r == retry_wrapper(outs, data)
             t2 == t + SumSeq(r.sleeps)
         IN [cache |-> IF r.kind = "return" THEN CacheSet(c, k, r.value, t2, atEdge) ELSE c,
             now |-> t2, hit |-> FALSE, res |-> r]

retrieve_team_games(team_id, season_type_nullable) ==
    \E outs \in AttemptSeqs, atEdge \in EdgeChoices(cache, now) :
        \E k \in {<<team_id, season_type_nullable>>} :
        \E c \in {CachedRetry(cache, k, now, outs, RemoteTable(remote), atEdge)} :
           /\ c.now <= MaxTime
           /\ ncalls < MaxCalls
           /\ ncalls' = ncalls + 1
           /\ cache' = c.cache
           /\ now' = c.now
           /\ last' = [key |-> k, hit |-> c.hit,
                       outs |-> IF c.hit THEN <<>> ELSE SubSeq(outs, 1, c.res.calls),
                       calls |-> c.res.calls, sleeps |-> c.res.sleeps,
                       kind |-> c.res.kind, value |-> c.res.value, exc |-> c.res.exc,
                       age |-> IF cache[k] = NoEntry THEN -1 ELSE now - cache[k].at,
                       memo |-> cache[k].value, served |-> RemoteTable(remote)]
           /\ UNCHANGED remote

RetrieveTeamGames ==
    /\ \E team_id \in TeamIds, st \in SeasonTypes : retrieve_team_games(team_id, st)
    /\ UNCHANGED <<gameVars, statVars, auxVars>>

\* the stats provider publishes new games
RemoteUpdate ==
    /\ remote = "v1"
    /\ remote' = "v2"
    /\ UNCHANGED <<now, cache, last, ncalls, gameVars, statVars, auxVars>>

\* time passes between calls
Advance ==
    /\ \E d \in AdvanceSteps : now + d <= MaxTime /\ now' = now + d
    /\ UNCHANGED <<remote, cache, last, ncalls, gameVars, statVars, auxVars>>

(***************************************************************************)
(* TeamGameData: local parquet files by (folder type, team, season type),  *)
(* and get_team_games, which falls back to the memoized, retried request.  *)
(***************************************************************************)
FolderTypes == {"raw", "interim", "processed"}
Absent == [exists |-> FALSE, obj |-> NoDf]
File(x) == [exists |-> TRUE, obj |-> x]
Paths == FolderTypes \X Keys \X {"parquet", "parquet.pickle"}

\* data/utils.py save_data under the save wrapper (which creates the folder and
\* tries again): a DataFrame goes to <name>, anything else is pickled to
\* <name>.pickle.
save_data(f, folder_type, k, data) ==
    IF IsTable(data)
    THEN [f EXCEPT ![<<folder_type, k, "parquet">>] = File(data)]
    ELSE [f EXCEPT ![<<folder_type, k, "parquet.pickle">>] = File(data)]

\* TeamGameData._load_team_games: None when the file is not found
load_team_games(f, k, folder_type) ==
    IF f[<<folder_type, k, "parquet">>].exists
    THEN f[<<folder_type, k, "parquet">>].obj ELSE NoDf

IsFile(f, folder_type, k) == f[<<folder_type, k, "parquet">>].exists

\* the transformation of TeamGameData._clean_team_games
clean_team_games_unsorted(team_games) ==
    Df([i \in 1..Len(team_games.rows) |-> CleanRow(team_games.rows[i])])

clean_team_games(team_games) == CleanTable(team_games)

\* TeamGameData.get_team_games as a function of the state it reads and of what
\* the provider does: the new files, cache and clock, and how the call ends.
get_team_games(f, c, t, k, folder_type, load, outs, data, atEdge) ==
    LET df0 == IF load THEN load_team_games(f, k, folder_type) ELSE NoDf
        base == [files |-> f, cache |-> c, now |-> t, hit |-> FALSE, calls |-> 0,
                 fetches |-> 0, kind |-> "return", value |-> df0, exc |-> None,
                 fetched |-> NoDf, wrote |-> {}]
    IN IF df0 # NoDf THEN base
       ELSE LET cr == CachedRetry(c, k, t, outs, data, atEdge)
                got == [base EXCEPT !.cache = cr.cache, !.now = cr.now, !.hit = cr.hit,
                                    !.calls = cr.res.calls, !.fetches = 1,
                                    !.fetched = cr.res.value]
            IN IF cr.res.kind = "raise"
               THEN [got EXCEPT !.kind = "raise", !.exc = cr.res.exc, !.value = NoDf]
               ELSE LET df == cr.res.value
                        saveRaw == ~IsFile(f, "raw", k)
                        f1 == IF saveRaw THEN save_data(f, "raw", k, df) ELSE f
                        w1 == IF saveRaw
                              THEN {<<"raw", k, IF IsTable(df) THEN "parquet"
                                                 ELSE "parquet.pickle">>}
                              ELSE {}
                    IN IF ~IsTable(df)
                       THEN \* team_games.GAME_DATE on None
                            [got EXCEPT !.files = f1, !.wrote = w1, !.kind = "raise",
                                        !.exc = "AttributeError", !.value = NoDf]
                       ELSE LET cleaned == clean_team_games(df)
                                saveInterim == ~IsFile(f1, "interim", k)
                                f2 == IF saveInterim
                                      THEN save_data(f1, "interim", k, cleaned) ELSE f1
                                w2 == IF saveInterim THEN {<<"interim", k, "parquet">>}
                                      ELSE {}
                            IN [got EXCEPT !.files = f2, !.wrote = w1 \cup w2,
                                           !.value = cleaned]

NoGameCall == [key |-> None, folder |-> None, load |-> FALSE, existed |-> FALSE,
               onDisk |-> NoDf, hit |-> FALSE, calls |-> 0, fetches |-> 0,
               kind |-> "none", value |-> NoDf, exc |-> None, fetched |-> NoDf,
               wrote |-> {}]

GetTeamGames ==
    /\ \E team_id \in TeamIds, st \in SeasonTypes, folder_type \in FolderTypes,
          load \in BOOLEAN, outs \in GameAttemptSeqs, atEdge \in EdgeChoices(gcache, now) :
        \E k \in {<<team_id, st>>} :
        \E g \in {get_team_games(files, gcache, now, k, folder_type, load, outs,
                                  RemoteTable(remote), atEdge)} :
           /\ g.now <= MaxTime
           /\ ncalls < MaxGameCalls
           /\ ncalls' = ncalls + 1
           /\ files' = g.files
           /\ gcache' = g.cache
           /\ now' = g.now
           /\ glast' = [key |-> k, folder |-> folder_type, load |-> load,
                        existed |-> IsFile(files, folder_type, k),
                        onDisk |-> files[<<folder_type, k, "parquet">>].obj,
                        hit |-> g.hit, calls |-> g.calls, fetches |-> g.fetches,
                        kind |-> g.kind, value |-> g.value, exc |-> g.exc,
                        fetched |-> g.fetched, wrote |-> g.wrote]
    /\ UNCHANGED <<remote, cache, last, statVars, auxVars>>

\* a table an earlier run left on disk
OldTable == CleanTable(Df(SubSeq(RemoteTable("v1").rows, 2, 2)))

NoFiles == [p \in Paths |-> Absent]

InitialFiles ==
    {NoFiles} \cup
    {[NoFiles EXCEPT ![<<ft, <<1610612737, "Regular Season">>, "parquet">>] = File(OldTable)] :
        ft \in FolderTypes}

InitRetriever ==
    /\ now = 0
    /\ remote = "v1"
    /\ cache = [k \in Keys |-> NoEntry]
    /\ last = NoCall
    /\ ncalls = 0

InitIdleGames ==
    /\ gcache = [k \in Keys |-> NoEntry]
    /\ files = NoFiles
    /\ glast = NoGameCall

InitGames ==
    /\ now = 0
    /\ remote = "v1"
    /\ gcache = [k \in Keys |-> NoEntry]
    /\ files \in InitialFiles
    /\ glast = NoGameCall
    /\ ncalls = 0
    /\ cache = [k \in Keys |-> NoEntry]
    /\ last = NoCall

InitIdleStats ==
    /\ cat = None
    /\ row = None
    /\ table = <<>>
    /\ out = None

InitIdleAux ==
    /\ imputation_map = None
    /\ pool = None

InitR == InitRetriever /\ InitIdleGames /\ InitIdleStats /\ InitIdleAux
NextR == RetrieveTeamGames \/ RemoteUpdate \/ Advance
SpecRetriever == InitR /\ [][NextR]_vars

InitG == InitGames /\ InitIdleStats /\ InitIdleAux
NextG == GetTeamGames \/ RemoteUpdate
SpecGames == InitG /\ [][NextG]_vars

(***************************************************************************)
(* Claims about the retry wrapper and the memoization.                     *)
(***************************************************************************)
Fetched == last.kind # "none" /\ ~last.hit

AllTransient(outs) == \A i \in 1..Len(outs) : outs[i] = "RequestException"

\* C1: when every attempt of a retry-wrapped fetch fails with a transient
\* request error, the call ends by raising the underlying exception; it never
\* returns a normal value after retry exhaustion.
C1_ExhaustionRaises ==
    (Fetched /\ Len(last.outs) = RETRIES /\ AllTransient(last.outs))
        => last.kind = "raise"

\* C2: one call of a retry-wrapped function invokes the wrapped function at
\* most 3 times, sleeps the same 30 seconds after each failed attempt, and
\* stops at the first successful attempt, returning that attempt's result.
C2_RetryBounded ==
    Fetched =>
        /\ last.calls <= 3
        /\ last.calls = Len(last.outs)
        /\ \A i \in 1..(last.calls - 1) : last.outs[i] = "RequestException"
        /\ Len(last.sleeps) =
               Cardinality({i \in 1..last.calls : last.outs[i] = "RequestException"})
        /\ \A i \in 1..Len(last.sleeps) : last.sleeps[i] = 30
        /\ \A i \in 1..last.calls : last.outs[i] = "ok" =>
               i = last.calls /\ last.kind = "return" /\ last.value = last.served

C2_Witness ==
    /\ Fetched
    /\ last.outs = <<"RequestException", "RequestException", "ok">>
    /\ last.sleeps = <<30, 30>>
    /\ last.value = last.served

\* C3: a second call with the same arguments made within the 300-second
\* window returns the memoized result without another remote fetch; a call
\* with the same arguments made after the window has elapsed (or with nothing
\* memoized) performs a new remote fetch.
C3_TtlMemo ==
    last.kind # "none" =>
        /\ (last.age >= 0 /\ last.age < 300) =>
               last.hit /\ last.calls = 0 /\ last.kind = "return" /\ last.value = last.memo
        /\ (last.age > 300 \/ last.age = -1) => ~last.hit /\ last.calls >= 1

C3_Witness ==
    /\ last.hit
    /\ last.age = 150
    /\ last.value = RemoteTable("v1")
    /\ last.served = RemoteTable("v2")

(***************************************************************************)
(* Claims about TeamGameData.get_team_games.                               *)
(***************************************************************************)
\* t is the cleaned form of raw: the same games in ascending date order, HOME
\* derived from the matchup, and a zero percentage where nothing was attempted
IsCleanedOf(t, raw) ==
    /\ t.isdf /\ raw.isdf
    /\ Len(t.rows) = Len(raw.rows)
    /\ {t.rows[i].GAME_DATE : i \in 1..Len(t.rows)} =
          {raw.rows[i].GAME_DATE : i \in 1..Len(raw.rows)}
    /\ \A i \in 1..(Len(t.rows) - 1) : t.rows[i].GAME_DATE <= t.rows[i + 1].GAME_DATE
    /\ \A i \in 1..Len(t.rows) :
          /\ t.rows[i].HOME = IsHome(t.rows[i].MATCHUP)
          /\ t.rows[i].FG3A = 0 => t.rows[i].FG3_PCT = R(0)

ServedFromDisk == glast.load /\ glast.existed

\* C4 (as claimed): a missing local file triggers exactly one remote fetch
\* whose cleaned result is returned; when loading is enabled and the file
\* exists, the loaded table is returned and no remote fetch is made.  The
\* retried requests of one fetch are counted as one fetch here, and the
\* returned value is constrained only when the call returns.
C4_ExactlyOneFetch ==
    glast.kind # "none" =>
        /\ ServedFromDisk =>
              glast.kind = "return" /\ glast.value = glast.onDisk /\ glast.calls = 0
        /\ (glast.load /\ ~glast.existed) =>
              /\ glast.calls >= 1
              /\ glast.kind = "return" => IsCleanedOf(glast.value, glast.fetched)

\* C4 (amended): a missing local file (or loading disabled) triggers exactly
\* one call of the memoized, retry-wrapped fetch, which makes no remote request
\* when it is served from the memo and between 1 and 3 otherwise; when that
\* call yields a table its cleaned form is returned, and when it yields None
\* or raises, get_team_games raises; when loading is enabled and the file
\* exists, the loaded table is returned and no fetch is made.
C4_OneMemoizedFetch ==
    glast.kind # "none" =>
        IF ServedFromDisk
        THEN /\ glast.kind = "return" /\ glast.value = glast.onDisk
             /\ glast.fetches = 0 /\ glast.calls = 0
        ELSE /\ glast.fetches = 1
             /\ IF glast.hit THEN glast.calls = 0 ELSE glast.calls \in 1..3
             /\ IF glast.fetched.isdf
                THEN glast.kind = "return" /\ IsCleanedOf(glast.value, glast.fetched)
                ELSE glast.kind = "raise"

C4_Witness ==
    /\ glast.load /\ ~glast.existed
    /\ glast.hit /\ glast.calls = 0
    /\ glast.kind = "return"
    /\ glast.value = CleanTable(RemoteTable("v1"))
    /\ remote = "v2"


(***************************************************************************)
(* The statistics catalogue (features/stats.py).  A formula is known to    *)
(* the registry by its method name; its signature is what                  *)
(* inspect.getfullargspec reports: the declared positional names, "self"   *)
(* included, and whether the formula ends in a catch-all of keywords.      *)
(***************************************************************************)
StatsSig == [
    field_goal_pct |->
        [args |-> <<"self", "FGM", "FGA">>,
         varkw |-> TRUE],
    free_throw_pct |->
        [args |-> <<"self", "FTM", "FTA">>,
         varkw |-> TRUE],
    two_point_attempts |->
        [args |-> <<"self", "FGA", "FG3A">>,
         varkw |-> TRUE],
    two_point_makes |->
        [args |-> <<"self", "FGM", "FG3M">>,
         varkw |-> TRUE],
    two_point_pct |->
        [args |-> <<"self", "FGA", "FGM", "FG3A", "FG3M">>,
         varkw |-> TRUE],
    two_point_attempt_rate |->
        [args |-> <<"self", "FGA", "FG3A">>,
         varkw |-> TRUE],
    three_point_pct |->
        [args |-> <<"self", "FG3M", "FG3A">>,
         varkw |-> TRUE],
    three_point_attempt_rate |->
        [args |-> <<"self", "FGA", "FG3A">>,
         varkw |-> TRUE],
    effective_field_goal_pct |->
        [args |-> <<"self", "FGA", "FGM", "FG3M">>,
         varkw |-> TRUE],
    true_shooting_pct |->
        [args |-> <<"self", "PTS", "FGA", "FTA">>,
         varkw |-> TRUE],
    minor_possessions |->
        [args |-> <<"self", "FGA", "FTA", "TOV">>,
         varkw |-> TRUE],
    major_possessions |->
        [args |-> <<"self", "FGA", "FTA", "TOV", "OREB">>,
         varkw |-> TRUE] ]

TeamStatsSig == [
    plus_minus |->
        [args |-> <<"self", "PTS", "OPP_PTS">>,
         varkw |-> TRUE],
    rebound_pct |->
        [args |-> <<"self", "REB", "OPP_REB">>,
         varkw |-> TRUE],
    defensive_rebound_pct |->
        [args |-> <<"self", "DREB", "OPP_OREB">>,
         varkw |-> TRUE],
    offensive_rebound_pct |->
        [args |-> <<"self", "OREB", "OPP_DREB">>,
         varkw |-> TRUE],
    pythagorean_win_pct |->
        [args |-> <<"self", "PTS", "OPP_PTS">>,
         varkw |-> TRUE],
    rebound_factor |->
        [args |-> <<"self", "REB", "OPP_REB">>,
         varkw |-> TRUE],
    four_factor_score |->
        [args |-> <<"self", "FGA", "FGM", "FG3M", "FTM", "FTA", "REB", "OPP_REB", "TOV">>,
         varkw |-> TRUE],
    possessions |->
        [args |-> <<"self", "FGA", "FGM", "FTA", "DREB", "OREB", "TOV", "OPP_FGA", "OPP_FGM", "OPP_FTA", "OPP_OREB", "OPP_DREB", "OPP_TOV">>,
         varkw |-> TRUE],
    pace |->
        [args |-> <<"self", "FGA", "FGM", "FTA", "DREB", "OREB", "TOV", "MP", "OPP_FGA", "OPP_FGM", "OPP_FTA", "OPP_OREB", "OPP_DREB", "OPP_TOV">>,
         varkw |-> TRUE],
    offensive_rating |->
        [args |-> <<"self", "PTS", "FGA", "FGM", "FTA", "DREB", "OREB", "TOV", "OPP_FGA", "OPP_FGM", "OPP_FTA", "OPP_OREB", "OPP_DREB", "OPP_TOV">>,
         varkw |-> TRUE],
    defensive_rating |->
        [args |-> <<"self", "FGA", "FGM", "FTA", "DREB", "OREB", "TOV", "OPP_PTS", "OPP_FGA", "OPP_FGM", "OPP_FTA", "OPP_OREB", "OPP_DREB", "OPP_TOV">>,
         varkw |-> TRUE],
    turnover_pct |->
        [args |-> <<"self", "FGA", "FTA", "TOV">>,
         varkw |-> TRUE],
    shooting_factor |->
        [args |-> <<"self", "FGA", "FGM", "FG3M">>,
         varkw |-> TRUE],
    turnover_factor |->
        [args |-> <<"self", "TOV", "FGA", "FTA">>,
         varkw |-> TRUE],
    free_throw_factor |->
        [args |-> <<"self", "FTM", "FGA">>,
         varkw |-> TRUE] ]

PlayerStatsSig == [
    assist_pct |->
        [args |-> <<"self", "AST", "FGM", "MP", "TEAM_FGM", "TEAM_MP">>,
         varkw |-> TRUE],
    defensive_rebound_pct |->
        [args |-> <<"self", "DREB", "MP", "TEAM_DREB", "TEAM_MP", "OPP_OREB">>,
         varkw |-> TRUE],
    offensive_rebound_pct |->
        [args |-> <<"self", "OREB", "MP", "TEAM_OREB", "TEAM_MP", "OPP_DREB">>,
         varkw |-> TRUE],
    rebound_pct |->
        [args |-> <<"self", "DREB", "OREB", "MP", "TEAM_DREB", "TEAM_OREB", "TEAM_MP", "OPP_DREB", "OPP_OREB">>,
         varkw |-> FALSE],
    block_pct |->
        [args |-> <<"self", "BLK", "OPP_FGA", "OPP_FG3A", "PLAYER_MP", "TEAM_MP">>,
         varkw |-> TRUE],
    steal_pct |->
        [args |-> <<"self", "STL", "MP", "TEAM_MP", "OPP_POSS">>,
         varkw |-> TRUE],
    usage_rate |->
        [args |-> <<"self", "FGA", "FTA", "TOV", "MP", "TEAM_FGA", "TEAM_FTA", "TEAM_TOV", "TEAM_MP">>,
         varkw |-> TRUE],
    total_possessions |->
        [args |-> <<"self", "PTS", "FGA", "FGM", "FTA", "FTM", "OREB", "AST", "TOV", "MP", "TEAM_PTS", "TEAM_FGA", "TEAM_FGM", "TEAM_FTA", "TEAM_FTM", "TEAM_OREB", "TEAM_AST", "TEAM_TOV", "TEAM_MP", "OPP_DREB">>,
         varkw |-> TRUE],
    points_produced |->
        [args |-> <<"self", "PTS", "FGA", "FGM", "FG3M", "FTM", "OREB", "AST", "MP", "TEAM_PTS", "TEAM_FGA", "TEAM_FGM", "TEAM_FG3M", "TEAM_FTA", "TEAM_FTM", "TEAM_OREB", "TEAM_AST", "TEAM_TOV", "TEAM_MP", "OPP_DREB">>,
         varkw |-> TRUE],
    offensive_rating |->
        [args |-> <<"self", "PTS", "FGA", "FGM", "FG3M", "FTA", "FTM", "OREB", "AST", "TOV", "MP", "TEAM_PTS", "TEAM_FGA", "TEAM_FGM", "TEAM_FG3M", "TEAM_FTA", "TEAM_FTM", "TEAM_OREB", "TEAM_AST", "TEAM_TOV", "TEAM_MP", "OPP_DREB">>,
         varkw |-> TRUE],
    floor_pct |->
        [args |-> <<"self", "PTS", "FGA", "FGM", "FTA", "FTM", "OREB", "AST", "TOV", "MP", "TEAM_PTS", "TEAM_FGA", "TEAM_FGM", "TEAM_FTA", "TEAM_FTM", "TEAM_OREB", "TEAM_AST", "TEAM_TOV", "TEAM_MP", "OPP_DREB">>,
         varkw |-> TRUE],
    game_score |->
        [args |-> <<"self", "PTS", "FGM", "FGA", "FTM", "FTA", "OREB", "DREB", "STL", "AST", "BLK", "PF", "TOV">>,
         varkw |-> FALSE] ]

Classes == {"Stats", "TeamStats", "PlayerStats"}

\* attribute lookup self.<method>: the class's own definition, else Stats'
Sig(cls, m) ==
    IF cls = "TeamStats" /\ m \in DOMAIN TeamStatsSig THEN TeamStatsSig[m]
    ELSE IF cls = "PlayerStats" /\ m \in DOMAIN PlayerStatsSig THEN PlayerStatsSig[m]
    ELSE StatsSig[m]

Range(s) == {s[i] : i \in DOMAIN s}

\* the fields a formula requires: its declared names without the receiver
Params(cls, m) == Range(Sig(cls, m).args) \ {"self"}

\* names that carry the opponent prefix (add_prefix("OPP_") in the merge)
OppFields ==
    {"OPP_PTS", "OPP_REB", "OPP_OREB", "OPP_DREB", "OPP_FGA", "OPP_FGM", "OPP_FTA",
     "OPP_TOV", "OPP_BLK", "OPP_FG3A", "OPP_FG3M", "OPP_FTM", "OPP_MP", "OPP_AST",
     "OPP_STL", "OPP_PF", "OPP_POSS"}

EmptyMap == [n \in {} |-> "none"]

\* Stats.__init__: self.independent_stat_method_map = {...}
StatsIndependent ==
    ("FG_PCT" :> "field_goal_pct") @@ ("FT_PCT" :> "free_throw_pct") @@
    ("FG2A" :> "two_point_attempts") @@ ("FG2M" :> "two_point_makes") @@
    ("FG2_PCT" :> "two_point_pct") @@ ("2PAr" :> "two_point_attempt_rate") @@
    ("FG3_PCT" :> "three_point_pct") @@ ("3PAr" :> "three_point_attempt_rate") @@
    ("eFG_PCT" :> "effective_field_goal_pct") @@ ("TS_PCT" :> "true_shooting_pct") @@
    ("MINOR_POSS" :> "minor_possessions") @@ ("MAJOR_POSS" :> "major_possessions")

\* TeamStats.__init__: self.independent_stat_method_map.update({...})
TeamStatsIndependentUpdateWithRebounds ==
    ("TOV_PCT" :> "turnover_pct") @@ ("SHOOTING_FACTOR" :> "shooting_factor") @@
    ("TOV_FACTOR" :> "turnover_factor") @@ ("FT_FACTOR" :> "free_throw_factor") @@
    ("REB_PCT" :> "rebound_pct")

TeamStatsIndependentUpdate ==
    ("TOV_PCT" :> "turnover_pct") @@ ("SHOOTING_FACTOR" :> "shooting_factor") @@
    ("TOV_FACTOR" :> "turnover_factor") @@ ("FT_FACTOR" :> "free_throw_factor")

\* TeamStats.__init__: self.dependent_stat_method_map = {...}
TeamStatsDependent ==
    ("PLUS_MINUS" :> "plus_minus") @@ ("REB_PCT" :> "rebound_pct") @@
    ("DREB_PCT" :> "defensive_rebound_pct") @@ ("OREB_PCT" :> "offensive_rebound_pct") @@
    ("PYTHAG_WINS" :> "pythagorean_win_pct") @@ ("REB_FACTOR" :> "rebound_factor") @@
    ("FOUR_FACTOR_SCORE" :> "four_factor_score") @@ ("POSS" :> "possessions") @@
    ("PACE" :> "pace") @@ ("OFF_RATING" :> "offensive_rating") @@
    ("DEF_RATING" :> "defensive_rating")

\* PlayerStats.__init__
PlayerStatsIndependentUpdate == ("GAME_SCORE" :> "game_score")

PlayerStatsDependent ==
    ("AST%" :> "assist_pct") @@ ("DREB%" :> "defensive_rebound_pct") @@
    ("OREB%" :> "offensive_rebound_pct") @@ ("REB%" :> "rebound_pct") @@
    ("BLK%" :> "block_pct") @@ ("STL%" :> "steal_pct") @@ ("USG%" :> "usage_rate") @@
    ("TOT_POSS" :> "total_possessions") @@ ("PPROD" :> "points_produced") @@
    ("OffRtg" :> "offensive_rating") @@ ("FLOOR%" :> "floor_pct")

\* dict.update(e): the entries of e replace or extend those of d
Update(d, e) == e @@ d

\* _get_required_stat_params: merge both maps (a dependent entry replaces an
\* independent one of the same name), collect every formula's declared names,
\* drop duplicates and "self".  The list is kept sorted; the model keeps the
\* set of its elements.
get_required_stat_params_independent_only(cls, independent, dependent) ==
    UNION {Range(Sig(cls, independent[n]).args) : n \in DOMAIN independent} \ {"self"}

get_required_stat_params(cls, independent, dependent) ==
    LET all_stat_methods == Update(independent, dependent)
        all_params == UNION {Range(Sig(cls, all_stat_methods[n]).args) :
                                n \in DOMAIN all_stat_methods}
    IN  all_params \ {"self"}

\* a catalogue object whose constructor has not run yet
NewCatalogue(cls) ==
    [cls |-> cls, pc |-> "start", independent_stat_method_map |-> EmptyMap,
     dependent_stat_method_map |-> EmptyMap, basic_required_stat_params |-> {},
     required |-> {}]

NoFormulaCall == [kind |-> "none", stat |-> None, method |-> None, kwargs |-> {},
                  result |-> None]

\* Stats.__init__ (run first by every catalogue class)
StatsInit ==
    /\ cat.pc = "start"
    /\ LET basic == get_required_stat_params(cat.cls, StatsIndependent, EmptyMap)
       IN  cat' = [cat EXCEPT !.independent_stat_method_map = StatsIndependent,
                              !.dependent_stat_method_map = EmptyMap,
                              !.basic_required_stat_params = basic,
                              !.required = IF cat.cls = "Stats" THEN basic ELSE {},
                              !.pc = IF cat.cls = "Stats" THEN "done" ELSE "base"]
    /\ UNCHANGED <<retrieverVars, gameVars, auxVars, row, table, out>>

\* the rest of TeamStats.__init__ after super().__init__
TeamStatsInit ==
    /\ cat.pc = "base" /\ cat.cls = "TeamStats"
    /\ LET independent == Update(cat.independent_stat_method_map, TeamStatsIndependentUpdate)
       IN  cat' = [cat EXCEPT !.independent_stat_method_map = independent,
                              !.dependent_stat_method_map = TeamStatsDependent,
                              !.required = get_required_stat_params(
                                              cat.cls, independent, TeamStatsDependent),
                              !.pc = "done"]
    /\ UNCHANGED <<retrieverVars, gameVars, auxVars, row, table, out>>

\* the rest of PlayerStats.__init__ after super().__init__
PlayerStatsInit ==
    /\ cat.pc = "base" /\ cat.cls = "PlayerStats"
    /\ LET independent == Update(cat.independent_stat_method_map,
                                 PlayerStatsIndependentUpdate)
       IN  cat' = [cat EXCEPT !.independent_stat_method_map = independent,
                              !.dependent_stat_method_map = PlayerStatsDependent,
                              !.required = get_required_stat_params(
                                              cat.cls, independent, PlayerStatsDependent),
                              !.pc = "done"]
    /\ UNCHANGED <<retrieverVars, gameVars, auxVars, row, table, out>>

Registered(c) ==
    Update(c.independent_stat_method_map, c.dependent_stat_method_map)

\* the keyword sets a caller hands to a formula: exactly its fields, the
\* catalogue's required fields (add_independent_team_stats and
\* add_dependent_team_stats pass every required column of the table), and
\* its fields plus an identifier column
KwargChoices(c, m) ==
    {Params(c.cls, m), c.basic_required_stat_params, c.required,
     Params(c.cls, m) \cup {"GAME_ID"}}

\* stat_func(**kwargs): Python binds the declared names, then either absorbs
\* the remaining keywords in the catch-all or raises TypeError
call_formula(cls, m, kwargs) ==
    LET sig == Sig(cls, m)
        declared == Range(sig.args) \ {"self"}
    IN  IF ~(declared \subseteq kwargs) THEN "TypeError"
        ELSE IF kwargs \subseteq declared \/ sig.varkw THEN "ok"
        ELSE "TypeError"

CallFormula ==
    /\ cat.pc = "done"
    /\ \E n \in DOMAIN Registered(cat) :
         LET m == Registered(cat)[n] IN
         \E kwargs \in KwargChoices(cat, m) :
            out' = [kind |-> "call", stat |-> n, method |-> m, kwargs |-> kwargs,
                    result |-> call_formula(cat.cls, m, kwargs)]
    /\ UNCHANGED <<retrieverVars, gameVars, auxVars, cat, row, table>>

\* another catalogue object is constructed
Construct ==
    /\ cat.pc = "done"
    /\ \E cls \in Classes : cat' = NewCatalogue(cls)
    /\ out' = NoFormulaCall
    /\ UNCHANGED <<retrieverVars, gameVars, auxVars, row, table>>

InitCatalogue ==
    /\ \E cls \in Classes : cat = NewCatalogue(cls)
    /\ out = NoFormulaCall
    /\ row = None
    /\ table = <<>>

InitC == InitRetriever /\ InitIdleGames /\ InitCatalogue /\ InitIdleAux
NextC == StatsInit \/ TeamStatsInit \/ PlayerStatsInit \/ CallFormula \/ Construct
SpecCatalogue == InitC /\ [][NextC]_vars

(***************************************************************************)
(* Claims about the catalogue.                                             *)
(***************************************************************************)
Built == cat.pc = "done"

\* C6: in a constructed Stats or TeamStats catalogue no formula of the
\* independent map declares a parameter with the opponent prefix, and no
\* statistic name is a key of both the independent and the dependent map.
C6_IndependentHasNoOpponent ==
    (Built /\ cat.cls \in {"Stats", "TeamStats"}) =>
        /\ \A n \in DOMAIN cat.independent_stat_method_map :
              Params(cat.cls, cat.independent_stat_method_map[n]) \cap OppFields = {}
        /\ DOMAIN cat.independent_stat_method_map
              \cap DOMAIN cat.dependent_stat_method_map = {}

C6_Witness ==
    /\ Built /\ cat.cls = "TeamStats"
    /\ "TOV_PCT" \in DOMAIN cat.independent_stat_method_map
    /\ "REB_PCT" \in DOMAIN cat.dependent_stat_method_map
    /\ "OPP_REB" \in Params(cat.cls, cat.dependent_stat_method_map["REB_PCT"])

\* C7 (as the specification states it): a registered formula of any of the
\* three catalogues, called with a superset of its required fields, accepts
\* the call and ignores the extra fields.
C7_ExtraFieldsIgnored ==
    (out.kind = "call" /\ Params(cat.cls, out.method) \subseteq out.kwargs) =>
        out.result = "ok"

\* C8: the required-field set a constructed catalogue reports holds every
\* declared parameter of every registered formula, holds nothing else, and
\* never holds the receiver "self".
C8_RequiredIsUnion ==
    Built =>
        /\ \A n \in DOMAIN Registered(cat) :
              Params(cat.cls, Registered(cat)[n]) \subseteq cat.required
        /\ \A p \in cat.required :
              \E n \in DOMAIN Registered(cat) : p \in Params(cat.cls, Registered(cat)[n])
        /\ "self" \notin cat.required

C8_Witness ==
    /\ Built /\ cat.cls = "TeamStats"
    /\ "OPP_PTS" \in cat.required /\ "MP" \in cat.required /\ "FG3M" \in cat.required
    /\ cat.required # cat.basic_required_stat_params

(***************************************************************************)
(* The formulas (features/stats.py).  Every argument and every result is a *)
(* fraction; numpy's element-wise operations act on one row here.          *)
(***************************************************************************)
ft_weight == <<11, 25>>                         \* free_throw_weight = 0.44
pythagorean_exp == <<1391, 100>>                \* pythagorean_exponent = 13.91
four_factor_shooting_weight_half == <<1, 2>>
four_factor_shooting_weight == <<2, 5>>         \* 0.4
four_factor_turnover_weight == <<1, 4>>         \* 0.25
four_factor_rebounding_weight == <<1, 5>>       \* 0.2
four_factor_free_throw_weight == <<3, 20>>      \* 0.15

field_goal_pct(FGM, FGA) == RDiv(FGM, FGA)
free_throw_pct(FTM, FTA) == RDiv(FTM, FTA)
two_point_attempts(FGA, FG3A) == RSub(FGA, FG3A)
two_point_makes_reversed(FGM, FG3M) == RSub(FG3M, FGM)
two_point_makes(FGM, FG3M) == RSub(FGM, FG3M)
two_point_pct(FGA, FGM, FG3A, FG3M) ==
    RDiv(two_point_makes(FGM, FG3M), two_point_attempts(FGA, FG3A))
two_point_attempt_rate(FGA, FG3A) == RDiv(two_point_attempts(FGA, FG3A), FGA)
three_point_pct(FG3M, FG3A) == RDiv(FG3M, FG3A)
three_point_attempt_rate(FGA, FG3A) == RDiv(FG3A, FGA)
effective_field_goal_pct_double_bonus(FGA, FGM, FG3M) ==
    RDiv(RAdd(FGM, RMul(R(2), FG3M)), FGA)
\* np.divide(np.add(np.multiply(FGM, 0.5), FG3M), FGA)
effective_field_goal_pct(FGA, FGM, FG3M) == RDiv(RAdd(RMul(FGM, <<1, 2>>), FG3M), FGA)
minor_possessions(FGA, FTA, TOV) == RAdd(RAdd(FGA, RMul(FTA, ft_weight)), TOV)
major_possessions(FGA, FTA, TOV, OREB) ==
    RAdd(RAdd(RAdd(FGA, RMul(ft_weight, FTA)), RMul(R(-1), OREB)), TOV)
true_shooting_attempts(FGA, FTA) == RAdd(FGA, RMul(FTA, ft_weight))
true_shooting_pct(PTS, FGA, FTA) == RDiv(PTS, true_shooting_attempts(FGA, FTA))

plus_minus(PTS, OPP_PTS) == RSub(PTS, OPP_PTS)
rebound_pct(REB, OPP_REB) == RDiv(REB, RAdd(REB, OPP_REB))
defensive_rebound_pct(DREB, OPP_OREB) == RDiv(DREB, RAdd(DREB, OPP_OREB))
offensive_rebound_pct(OREB, OPP_DREB) == RDiv(OREB, RAdd(OREB, OPP_DREB))
turnover_pct(FGA, FTA, TOV) == RDiv(TOV, minor_possessions(FGA, FTA, TOV))
\* PTS**EXP / (PTS**EXP + OPP_PTS**EXP): the power is not a fraction, the
\* model keeps the expression unevaluated
pythagorean_win_pct(PTS, OPP_PTS) ==
    [base |-> PTS, against |-> OPP_PTS, exponent |-> pythagorean_exp]
shooting_factor(FGA, FGM, FG3M) == effective_field_goal_pct(FGA, FGM, FG3M)
turnover_factor(TOV, FGA, FTA) == turnover_pct(FGA, FTA, TOV)
rebound_factor(REB, OPP_REB) == rebound_pct(REB, OPP_REB)
free_throw_factor(FTM, FGA) == RDiv(FTM, FGA)
four_factor_score(FGA, FGM, FG3M, FTM, FTA, REB, OPP_REB, TOV) ==
    RAdd(RAdd(RAdd(RMul(shooting_factor(FGA, FGM, FG3M), four_factor_shooting_weight),
                   RMul(turnover_factor(TOV, FGA, FTA), four_factor_turnover_weight)),
              RMul(rebound_factor(REB, OPP_REB), four_factor_rebounding_weight)),
         RMul(free_throw_factor(FTM, FGA), four_factor_free_throw_weight))
team_possessions(FGA, FGM, FTA, OREB, OPP_DREB, TOV) ==
    RAdd(RAdd(RAdd(FGA, RMul(ft_weight, FTA)),
              RMul(<<-107, 100>>,
                   RMul(offensive_rebound_pct(OREB, OPP_DREB), RSub(FGA, FGM)))),
         TOV)
possessions_team_only(FGA, FGM, FTA, DREB, OREB, TOV, OPP_FGA, OPP_FGM, OPP_FTA, OPP_OREB, OPP_DREB, OPP_TOV) ==
    team_possessions(FGA, FGM, FTA, OREB, OPP_DREB, TOV)
possessions(FGA, FGM, FTA, DREB, OREB, TOV, OPP_FGA, OPP_FGM, OPP_FTA, OPP_OREB, OPP_DREB, OPP_TOV) ==
    RMul(<<1, 2>>,
         RAdd(team_possessions(FGA, FGM, FTA, OREB, OPP_DREB, TOV),
              team_possessions(OPP_FGA, OPP_FGM, OPP_FTA, OPP_OREB, DREB, OPP_TOV)))
pace_without_halving(FGA, FGM, FTA, DREB, OREB, TOV, MP, OPP_FGA, OPP_FGM, OPP_FTA, OPP_OREB, OPP_DREB, OPP_TOV) ==
    LET poss == possessions(FGA, FGM, FTA, DREB, OREB, TOV,
                            OPP_FGA, OPP_FGM, OPP_FTA, OPP_OREB, OPP_DREB, OPP_TOV)
        opp_poss == possessions(OPP_FGA, OPP_FGM, OPP_FTA, OPP_DREB, OPP_OREB, OPP_TOV,
                                FGA, FGM, FTA, OREB, DREB, TOV)
    IN  RMul(R(48), RDiv(RAdd(poss, opp_poss), RDiv(MP, R(5))))
pace(FGA, FGM, FTA, DREB, OREB, TOV, MP, OPP_FGA, OPP_FGM, OPP_FTA, OPP_OREB, OPP_DREB, OPP_TOV) ==
    LET poss == possessions(FGA, FGM, FTA, DREB, OREB, TOV,
                            OPP_FGA, OPP_FGM, OPP_FTA, OPP_OREB, OPP_DREB, OPP_TOV)
        opp_poss == possessions(OPP_FGA, OPP_FGM, OPP_FTA, OPP_DREB, OPP_OREB, OPP_TOV,
                                FGA, FGM, FTA, OREB, DREB, TOV)
    IN  RMul(R(48), RDiv(RAdd(poss, opp_poss), RMul(R(2), RDiv(MP, R(5)))))
offensive_rating(PTS, FGA, FGM, FTA, DREB, OREB, TOV, OPP_FGA, OPP_FGM, OPP_FTA, OPP_OREB, OPP_DREB, OPP_TOV) ==
    RMul(R(100), RDiv(PTS, possessions(FGA, FGM, FTA, DREB, OREB, TOV,
                                       OPP_FGA, OPP_FGM, OPP_FTA, OPP_OREB, OPP_DREB,
                                       OPP_TOV)))
defensive_rating(FGA, FGM, FTA, DREB, OREB, TOV, OPP_PTS, OPP_FGA, OPP_FGM, OPP_FTA, OPP_OREB, OPP_DREB, OPP_TOV) ==
    RMul(R(100), RDiv(OPP_PTS, possessions(FGA, FGM, FTA, DREB, OREB, TOV,
                                           OPP_FGA, OPP_FGM, OPP_FTA, OPP_OREB, OPP_DREB,
                                           OPP_TOV)))

\* stat_func(**team_games_dict) for a formula of the independent map: the
\* formula picks its declared names out of the row's columns
independent_stat(m, r) ==
    CASE m = "field_goal_pct" -> field_goal_pct(r.FGM, r.FGA)
      [] m = "free_throw_pct" -> free_throw_pct(r.FTM, r.FTA)
      [] m = "two_point_attempts" -> two_point_attempts(r.FGA, r.FG3A)
      [] m = "two_point_makes" -> two_point_makes(r.FGM, r.FG3M)
      [] m = "two_point_pct" -> two_point_pct(r.FGA, r.FGM, r.FG3A, r.FG3M)
      [] m = "two_point_attempt_rate" -> two_point_attempt_rate(r.FGA, r.FG3A)
      [] m = "three_point_pct" -> three_point_pct(r.FG3M, r.FG3A)
      [] m = "three_point_attempt_rate" -> three_point_attempt_rate(r.FGA, r.FG3A)
      [] m = "effective_field_goal_pct" -> effective_field_goal_pct(r.FGA, r.FGM, r.FG3M)
      [] m = "true_shooting_pct" -> true_shooting_pct(r.PTS, r.FGA, r.FTA)
      [] m = "minor_possessions" -> minor_possessions(r.FGA, r.FTA, r.TOV)
      [] m = "major_possessions" -> major_possessions(r.FGA, r.FTA, r.TOV, r.OREB)
      [] m = "turnover_pct" -> turnover_pct(r.FGA, r.FTA, r.TOV)
      [] m = "shooting_factor" -> shooting_factor(r.FGA, r.FGM, r.FG3M)
      [] m = "turnover_factor" -> turnover_factor(r.TOV, r.FGA, r.FTA)
      [] m = "free_throw_factor" -> free_throw_factor(r.FTM, r.FGA)

(***************************************************************************)
(* One box-score row on its way through the cleaner and the loader.        *)
(***************************************************************************)
FGAValues == {0, 2, 20}
FGMValues == {0, 1, 2, 10}
FG3Values == {0, 1, 2}
FTAValues == {0, 10}
FTMValues == {0, 8}
TOVValues == {0, 12}
REBValues == {0, 9}

\* a row as the provider serves it: counts are consistent with each other,
\* points follow from the makes, FG3_PCT is undefined or 0 without attempts
BoxScores ==
    {s \in [pre : BOOLEAN, fga : FGAValues, fgm : FGMValues, fg3a : FG3Values,
            fg3m : FG3Values, fta : FTAValues, ftm : FTMValues, tov : TOVValues,
            oreb : REBValues, hasPct : BOOLEAN] :
        /\ s.fgm <= s.fga /\ s.fg3a <= s.fga
        /\ s.fg3m <= s.fg3a /\ s.fg3m <= s.fgm
        /\ s.ftm <= s.fta
        /\ (s.hasPct \/ s.fg3a = 0)}

RawRow(s) ==
    [stage |-> "raw", PRE2000 |-> s.pre, FGA |-> R(s.fga), FGM |-> R(s.fgm),
     FG3A |-> R(s.fg3a), FG3M |-> R(s.fg3m), FTA |-> R(s.fta), FTM |-> R(s.ftm),
     TOV |-> R(s.tov), OREB |-> R(s.oreb), DREB |-> R(3 * s.oreb),
     PTS |-> R(2 * s.fgm + s.fg3m + s.ftm),
     FG3_PCT |-> IF s.hasPct THEN Norm(s.fg3m, s.fg3a) ELSE NaN]

RawRows == {RawRow(s) : s \in BoxScores}

\* TeamGameDataCleaner._adjust_three_point_shooting
adjust_three_point_shooting(r) ==
    LET divided == [r EXCEPT !.FG3_PCT = RDiv(r.FG3M, r.FG3A)]
    IN  IF divided.FG3A = R(0) THEN [divided EXCEPT !.FG3_PCT = R(0)] ELSE divided

\* .replace({0: np.NaN}) on a column of the rows dated before 2000
replace_missing(r, x) == IF r.PRE2000 /\ x = R(0) THEN NaN ELSE x

\* TeamGameDataCleaner.clean_team_game_data, as far as the numeric columns go
clean_team_game_data(r) ==
    LET adjusted == adjust_three_point_shooting(r)
    IN  [adjusted EXCEPT !.DREB = replace_missing(adjusted, adjusted.DREB),
                         !.OREB = replace_missing(adjusted, adjusted.OREB),
                         !.stage = "clean"]

NoStats == [n \in {} |-> NaN]

\* TeamGameDataLoader.add_independent_team_stats with self.stats = TeamStats():
\* every statistic of the independent map is computed from the row's columns
\* and assigned to the column of its name
loader_independent_map == Update(StatsIndependent, TeamStatsIndependentUpdate)

add_independent_team_stats(r) ==
    [n \in DOMAIN loader_independent_map |-> independent_stat(loader_independent_map[n], r)]

CleanTeamGameData ==
    /\ row.stage = "raw"
    /\ row' = clean_team_game_data(row)
    /\ UNCHANGED <<retrieverVars, gameVars, auxVars, cat, table, out>>

AddIndependentTeamStats ==
    /\ row.stage = "clean"
    /\ out' = add_independent_team_stats(row)
    /\ row' = [row EXCEPT !.FG3_PCT = out'["FG3_PCT"], !.stage = "stats"]
    /\ UNCHANGED <<retrieverVars, gameVars, auxVars, cat, table>>

NextRow ==
    /\ row.stage = "stats"
    /\ row' \in RawRows
    /\ out' = NoStats
    /\ UNCHANGED <<retrieverVars, gameVars, auxVars, cat, table>>

InitFormulas ==
    /\ row \in RawRows
    /\ out = NoStats
    /\ cat = None
    /\ table = <<>>

InitF == InitRetriever /\ InitIdleGames /\ InitFormulas /\ InitIdleAux
NextF == CleanTeamGameData \/ AddIndependentTeamStats \/ NextRow
SpecFormulas == InitF /\ [][NextF]_vars

(***************************************************************************)
(* Claims about the formulas.                                              *)
(***************************************************************************)
\* C9 (as the specification states it): a row without three-point attempts
\* carries a three-point percentage of exactly 0, after cleaning and after
\* the catalogue has computed the row's FG3_PCT column.
C9_ZeroAttemptsZeroPct ==
    (row.stage \in {"clean", "stats"} /\ row.FG3A = R(0)) => row.FG3_PCT = R(0)

\* C10 (as the specification states it): the effective field-goal percentage
\* computed for a row with FGA > 0 is (FGM + 0.5 * FG3M) / FGA; for FGM = 10,
\* FGA = 20, FG3M = 2 it is 0.55.
C10_EffectiveFieldGoalPct ==
    (row.stage = "stats" /\ row.FGA # R(0)) =>
        /\ out["eFG_PCT"] = RDiv(RAdd(row.FGM, RMul(<<1, 2>>, row.FG3M)), row.FGA)
        /\ (row.FGM = R(10) /\ row.FGA = R(20) /\ row.FG3M = R(2)) =>
               out["eFG_PCT"] = <<11, 20>>

\* C11 (as the specification states it): the true-shooting percentage
\* computed for a row is PTS / (2 * (FGA + 0.44 * FTA)) whenever that
\* denominator is not zero.
C11_TrueShootingPct ==
    (row.stage = "stats" /\ RAdd(row.FGA, RMul(<<11, 25>>, row.FTA)) # R(0)) =>
        out["TS_PCT"] =
            RDiv(row.PTS, RMul(R(2), RAdd(row.FGA, RMul(<<11, 25>>, row.FTA))))

\* C15: for every row the two-point makes computed for it plus its
\* three-point makes give back its field-goal makes, and the two-point
\* attempts plus its three-point attempts give back its field-goal attempts.
C15_TwoPointRoundTrip ==
    row.stage = "stats" =>
        /\ RAdd(out["FG2M"], row.FG3M) = row.FGM
        /\ RAdd(out["FG2A"], row.FG3A) = row.FGA

C15_Witness ==
    /\ row.stage = "stats"
    /\ row.FG3M = R(2) /\ row.FGM = R(10) /\ out["FG2M"] = R(8)
    /\ row.FG3A = R(2) /\ row.FGA = R(20) /\ out["FG2A"] = R(18)

\* C16: for every valid row (0 <= FG3M <= FGM <= FGA, FGA > 0) the
\* effective field-goal percentage computed for it lies in [0, 1.5].
ValidShooting(r) ==
    /\ RLeq(R(0), r.FG3M) /\ RLeq(r.FG3M, r.FGM) /\ RLeq(r.FGM, r.FGA)
    /\ r.FGA # R(0)

C16_EffectiveFieldGoalRange ==
    (row.stage = "stats" /\ ValidShooting(row)) =>
        /\ IsFinite(out["eFG_PCT"])
        /\ RLeq(R(0), out["eFG_PCT"]) /\ RLeq(out["eFG_PCT"], <<3, 2>>)

C16_Witness ==
    /\ row.stage = "stats" /\ ValidShooting(row)
    /\ row.FG3M = row.FGA
    /\ out["eFG_PCT"] = <<3, 2>>

(***************************************************************************)
(* The team/opponent merge and the dependent statistics                    *)
(* (TeamGameDataLoader._merge_team_games, add_dependent_team_stats).       *)
(***************************************************************************)
\* box-score lines a team-game row can carry
BoxLine(v) ==
    IF v = "a"
    THEN [PTS |-> R(100), FGA |-> R(80), FGM |-> R(40), FG3M |-> R(6), FTM |-> R(14),
          FTA |-> R(25), REB |-> R(40), OREB |-> R(10), DREB |-> R(30), TOV |-> R(12),
          MP |-> R(240)]
    ELSE [PTS |-> R(90), FGA |-> R(75), FGM |-> R(35), FG3M |-> R(5), FTM |-> R(15),
          FTA |-> R(25), REB |-> R(45), OREB |-> R(15), DREB |-> R(30), TOV |-> R(15),
          MP |-> R(240)]

LineVariants == {"a", "b"}

TeamGameRow(game, home, team, v) ==
    [SEASON_ID |-> 22023, GAME_ID |-> game, GAME_DATE |-> game, HOME |-> home,
     TEAM_ID |-> team, box |-> BoxLine(v)]

\* the two rows of each of two games between Atlanta (1610612737) and
\* Boston (1610612738): (game, home flag, team)
Slots ==
    << <<1, TRUE, 1610612737>>, <<1, FALSE, 1610612738>>,
       <<2, TRUE, 1610612738>>, <<2, FALSE, 1610612737>> >>

\* pd.concat of the per-team tables: any of the four rows may be missing
RECURSIVE TableOf(_, _)
TableOf(choice, i) ==
    IF i > Len(Slots) THEN <<>>
    ELSE (IF choice[i] = "absent" THEN <<>>
          ELSE <<TeamGameRow(Slots[i][1], Slots[i][2], Slots[i][3], choice[i])>>)
         \o TableOf(choice, i + 1)

InputTables ==
    {TableOf(choice, 1) : choice \in [1..Len(Slots) -> LineVariants \cup {"absent"}]}

B2I(b) == IF b THEN 1 ELSE 0

RECURSIVE LexLess(_, _)
LexLess(a, b) ==
    IF a = <<>> THEN FALSE
    ELSE IF Head(a) # Head(b) THEN Head(a) < Head(b)
    ELSE LexLess(Tail(a), Tail(b))

\* groupby([...], sort=True): the group keys in ascending order
GroupKey(r) == <<r.SEASON_ID, r.GAME_ID, r.GAME_DATE, B2I(r.HOME), r.TEAM_ID>>
\* sort_index(level=[0, 1, 2, 3], ascending=[True, True, True, False])
OpponentKey(r) == <<r.SEASON_ID, r.GAME_ID, r.GAME_DATE, -B2I(r.HOME), r.TEAM_ID>>

\* .first(): one row per group, the first of the table with that key
FirstOfGroups(t) ==
    {t[i] : i \in {j \in DOMAIN t : \A k \in 1..(j - 1) : GroupKey(t[k]) # GroupKey(t[j])}}

KeyOf(r, side) == IF side = "team" THEN GroupKey(r) ELSE OpponentKey(r)

RECURSIVE SortByKey(_, _)
SortByKey(S, side) ==
    IF S = {} THEN <<>>
    ELSE LET m == CHOOSE x \in S :
                    \A y \in S : x = y \/ LexLess(KeyOf(x, side), KeyOf(y, side))
         IN  <<m>> \o SortByKey(S \ {m}, side)

\* pd.concat([left, right.add_prefix("OPP_")], axis=1, join="inner") after
\* reset_index(): the i-th row of one side meets the i-th row of the other
merge_team_games(t) ==
    LET left == SortByKey(FirstOfGroups(t), "team")
        right == SortByKey(FirstOfGroups(t), "opponent")
    IN  [i \in 1..Len(left) |-> [row |-> left[i], opp |-> right[i]]]

\* stat_func(**team_games_dict) for every formula of TeamStats' dependent map
dependent_stats(m) ==
    LET r == m.row.box
        o == m.opp.box
    IN  [PLUS_MINUS |-> plus_minus(r.PTS, o.PTS),
         REB_PCT |-> rebound_pct(r.REB, o.REB),
         DREB_PCT |-> defensive_rebound_pct(r.DREB, o.OREB),
         OREB_PCT |-> offensive_rebound_pct(r.OREB, o.DREB),
         PYTHAG_WINS |-> pythagorean_win_pct(r.PTS, o.PTS),
         REB_FACTOR |-> rebound_factor(r.REB, o.REB),
         FOUR_FACTOR_SCORE |-> four_factor_score(r.FGA, r.FGM, r.FG3M, r.FTM, r.FTA,
                                                 r.REB, o.REB, r.TOV),
         POSS |-> possessions(r.FGA, r.FGM, r.FTA, r.DREB, r.OREB, r.TOV,
                              o.FGA, o.FGM, o.FTA, o.OREB, o.DREB, o.TOV),
         PACE |-> pace(r.FGA, r.FGM, r.FTA, r.DREB, r.OREB, r.TOV, r.MP,
                       o.FGA, o.FGM, o.FTA, o.OREB, o.DREB, o.TOV),
         OFF_RATING |-> offensive_rating(r.PTS, r.FGA, r.FGM, r.FTA, r.DREB, r.OREB,
                                         r.TOV, o.FGA, o.FGM, o.FTA, o.OREB, o.DREB,
                                         o.TOV),
         DEF_RATING |-> defensive_rating(r.FGA, r.FGM, r.FTA, r.DREB, r.OREB, r.TOV,
                                         o.PTS, o.FGA, o.FGM, o.FTA, o.OREB, o.DREB,
                                         o.TOV)]

\* add_dependent_team_stats: one column per dependent statistic, a value in
\* every row of the merged table; no step of it raises
add_dependent_team_stats(merged) ==
    [i \in DOMAIN merged |->
        [row |-> merged[i].row, opp |-> merged[i].opp, stats |-> dependent_stats(merged[i])]]

NoMerge == [kind |-> "none", rows |-> <<>>]

\* the tail of load_all_team_games: merge, then the dependent statistics
MergeAndAddDependent ==
    /\ out.kind = "none"
    /\ out' = [kind |-> "return", rows |-> add_dependent_team_stats(merge_team_games(table))]
    /\ UNCHANGED <<retrieverVars, gameVars, auxVars, cat, row, table>>

NextTable ==
    /\ out.kind # "none"
    /\ table' \in InputTables
    /\ out' = NoMerge
    /\ UNCHANGED <<retrieverVars, gameVars, auxVars, cat, row>>

InitMerge ==
    /\ table \in InputTables
    /\ out = NoMerge
    /\ cat = None
    /\ row = None

InitM == InitRetriever /\ InitIdleGames /\ InitMerge /\ InitIdleAux
NextM == MergeAndAddDependent \/ NextTable
SpecMerge == InitM /\ [][NextM]_vars

(***************************************************************************)
(* Claims about the merge.                                                 *)
(***************************************************************************)
HasOpponentRow(t, r) ==
    \E i \in DOMAIN t : t[i].GAME_ID = r.GAME_ID /\ t[i].TEAM_ID # r.TEAM_ID

\* C5 (as the specification states it): when some row of the table has no
\* opponent row, computing the dependent statistics ends in an error, and no
\* dependent statistic is produced for a row without an opponent row.
C5_NoOpponentNoStats ==
    out.kind # "none" =>
        /\ (\E i \in DOMAIN table : ~HasOpponentRow(table, table[i])) => out.kind = "raise"
        /\ out.kind = "return" =>
              \A i \in DOMAIN out.rows : HasOpponentRow(table, out.rows[i].row)

\* the single-team possession estimate of a row against its paired row
TeamPossessionsOf(r, o) == team_possessions(r.FGA, r.FGM, r.FTA, r.OREB, o.DREB, r.TOV)

\* rows i and j of the result are the two rows of one game, paired with
\* each other
Opponents(i, j) ==
    /\ out.rows[i].row.GAME_ID = out.rows[j].row.GAME_ID
    /\ out.rows[i].row.TEAM_ID # out.rows[j].row.TEAM_ID
    /\ out.rows[i].opp = out.rows[j].row
    /\ out.rows[j].opp = out.rows[i].row

\* C12: for the two rows A and B of a game, the possessions computed for A
\* against B equal the possessions computed for B against A, and A's
\* defensive rating against B equals B's offensive rating against A.
C12_SwapSymmetry ==
    out.kind = "return" =>
        \A i, j \in DOMAIN out.rows :
            Opponents(i, j) =>
                /\ out.rows[i].stats.POSS = out.rows[j].stats.POSS
                /\ out.rows[i].stats.DEF_RATING = out.rows[j].stats.OFF_RATING

C12_Witness ==
    /\ out.kind = "return"
    /\ \E i, j \in DOMAIN out.rows :
          /\ Opponents(i, j)
          /\ out.rows[i].row.box # out.rows[j].row.box
          /\ IsFinite(out.rows[i].stats.POSS)
          /\ IsFinite(out.rows[i].stats.DEF_RATING)
          /\ out.rows[i].stats.DEF_RATING # out.rows[i].stats.OFF_RATING

\* C13: the pace computed for a row with MP > 0 is
\* 48 * (team possessions + opponent possessions) / (2 * (MP / 5)), the two
\* terms being the single-team estimates of the row and of its paired row.
C13_Pace ==
    out.kind = "return" =>
        \A i \in DOMAIN out.rows :
            LET r == out.rows[i].row.box
                o == out.rows[i].opp.box
            IN  r.MP # R(0) =>
                    out.rows[i].stats.PACE =
                        RMul(R(48), RDiv(RAdd(TeamPossessionsOf(r, o), TeamPossessionsOf(o, r)),
                                         RMul(R(2), RDiv(r.MP, R(5)))))

C13_Witness ==
    /\ out.kind = "return"
    /\ \E i, j \in DOMAIN out.rows :
          /\ Opponents(i, j)
          /\ out.rows[i].row.box # out.rows[j].row.box
          /\ out.rows[i].row.box.MP = R(240)
          /\ IsFinite(out.rows[i].stats.PACE) /\ out.rows[i].stats.PACE # R(0)

\* C14: the four-factor score computed for a row is 0.4 * shooting factor +
\* 0.25 * turnover factor + 0.2 * rebound factor + 0.15 * free-throw factor,
\* and the four configured weights sum to exactly 1.
C14_FourFactorScore ==
    /\ RAdd(RAdd(four_factor_shooting_weight, four_factor_turnover_weight),
            RAdd(four_factor_rebounding_weight, four_factor_free_throw_weight)) = R(1)
    /\ out.kind = "return" =>
          \A i \in DOMAIN out.rows :
              LET r == out.rows[i].row.box
                  o == out.rows[i].opp.box
              IN  out.rows[i].stats.FOUR_FACTOR_SCORE =
                      RAdd(RAdd(RAdd(RMul(<<2, 5>>, shooting_factor(r.FGA, r.FGM, r.FG3M)),
                                     RMul(<<1, 4>>, turnover_factor(r.TOV, r.FGA, r.FTA))),
                                RMul(<<1, 5>>, rebound_factor(r.REB, o.REB))),
                           RMul(<<3, 20>>, free_throw_factor(r.FTM, r.FGA)))

C14_Witness ==
    /\ out.kind = "return"
    /\ \E i, j \in DOMAIN out.rows :
          /\ Opponents(i, j)
          /\ out.rows[i].row.box # out.rows[j].row.box
          /\ IsFinite(out.rows[i].stats.FOUR_FACTOR_SCORE)
          /\ out.rows[i].stats.FOUR_FACTOR_SCORE # R(0)
          /\ out.rows[i].stats.FOUR_FACTOR_SCORE # out.rows[j].stats.FOUR_FACTOR_SCORE

(***************************************************************************)
(* Imputation of missing values (TeamGameDataCleaner.impute_team_game_data) *)
(* for the games of one team.  A cell is missing when it is NaN.  The       *)
(* object's imputation map persists from one call to the next.              *)
(***************************************************************************)
MaxImputeCalls == 2

\* counting columns in the order the table carries them
StatOrder == <<"PTS", "FGM", "FGA", "FG3M", "FG3A", "FTM", "FTA", "OREB", "DREB", "TOV">>
CountingStats == Range(StatOrder)

\* the numeric columns of a cleaned row
BoxOf(r) == [c \in CountingStats \cup {"FG3_PCT"} |-> r[c]]

\* rows the provider serves for old games lack the three-point columns
WithoutThrees(r) == [r EXCEPT !.FG3M = NaN, !.FG3A = NaN, !.FG3_PCT = NaN]

ImputeScores ==
    {s \in BoxScores : /\ s.fga = 20 /\ s.fgm = 10 /\ s.fta = 10 /\ s.ftm = 8 /\ s.tov = 12
                       /\ s.fg3a \in {0, 2} /\ s.fg3m = 0 /\ s.hasPct
                       /\ (s.pre => s.oreb = 0) /\ (s.oreb = 0 => s.pre)
                       /\ (s.pre => s.fg3a = 2)}

\* the numeric columns of the rows clean_team_game_data hands on
CleanedBoxes ==
    {BoxOf(clean_team_game_data(RawRow(s))) : s \in ImputeScores}
    \cup {BoxOf(clean_team_game_data(WithoutThrees(RawRow(s)))) :
            s \in {x \in ImputeScores : ~x.pre /\ x.fg3a = 0}}

CleanedTables ==
    {<<[GAME_ID |-> 1, box |-> b]>> : b \in CleanedBoxes}
    \cup {<<[GAME_ID |-> 1, box |-> b1], [GAME_ID |-> 2, box |-> b2]>> :
            b1 \in CleanedBoxes, b2 \in CleanedBoxes}

MissingIn(box) == {c \in DOMAIN box : IsNaN(box[c])}

\* team_games.fillna(pd.DataFrame().from_dict(self.imputation_map[team_id],
\* orient="index")): a missing cell takes the value recorded for its game
\* and column, which may itself be missing
fillna(t, games) ==
    [i \in DOMAIN t |->
        [t[i] EXCEPT !.box =
            [c \in DOMAIN t[i].box |->
                IF IsNaN(t[i].box[c]) /\ t[i].GAME_ID \in DOMAIN games
                   /\ c \in DOMAIN games[t[i].GAME_ID]
                THEN games[t[i].GAME_ID][c]
                ELSE t[i].box[c]]]]

\* what the user types at a prompt, and int(...) of it
Answers == {"-1", "0", "7", "n/a"}
IsInt(a) == a \in {"-1", "0", "7"}
ParseInt(a) == IF a = "-1" THEN -1 ELSE IF a = "0" THEN 0 ELSE 7

\* the columns of one row the user is asked about, in column order
PromptStats(box) ==
    SelectSeq(StatOrder, LAMBDA c : IsNaN(box[c]))

\* the inner loop over the missing stats of one row: st holds the table, the
\* map and whether a prompt has raised
RECURSIVE AskStats(_, _, _, _, _)
AskStats(st, i, g, stats, answers) ==
    IF stats = <<>> \/ st.exc # None THEN st
    ELSE LET stat == Head(stats)
             a == answers[<<g, stat>>]
         IN  IF ~IsInt(a) THEN [st EXCEPT !.exc = "ValueError"]
             ELSE LET fill_val == IF ParseInt(a) = -1 THEN NaN ELSE R(ParseInt(a))
                      filled == IF ParseInt(a) = -1 THEN st.t
                                ELSE [st.t EXCEPT ![i].box[stat] = fill_val]
                      recorded == (stat :> fill_val) @@ st.games[g]
                  IN  AskStats([st EXCEPT !.t = filled, !.games[g] = recorded],
                               i, g, Tail(stats), answers)

\* the outer loop over missing_df: the rows that miss a counting stat
RECURSIVE AskRows(_, _, _, _)
AskRows(st, snapshot, i, answers) ==
    IF i > Len(snapshot) \/ st.exc # None THEN st
    ELSE IF MissingIn(snapshot[i].box) \ {"FG3_PCT"} = {} THEN
        AskRows(st, snapshot, i + 1, answers)
    ELSE LET g == snapshot[i].GAME_ID
             reset == [st EXCEPT !.games =
                          (g :> [c \in {} |-> NaN]) @@ st.games]
         IN  AskRows(AskStats(reset, i, g, PromptStats(snapshot[i].box), answers),
                     snapshot, i + 1, answers)

\* _adjust_three_point_shooting on every row of a table
adjust_table(t) ==
    [i \in DOMAIN t |-> [t[i] EXCEPT !.box =
        LET divided == [t[i].box EXCEPT !["FG3_PCT"] = RDiv(t[i].box.FG3M, t[i].box.FG3A)]
        IN  IF divided.FG3A = R(0) THEN [divided EXCEPT !["FG3_PCT"] = R(0)] ELSE divided]]

AnyMissing(t) == \E i \in DOMAIN t : MissingIn(t[i].box) # {}
AnyMissingCount(t) == \E i \in DOMAIN t : MissingIn(t[i].box) \ {"FG3_PCT"} # {}

\* the cells a call will prompt for
PromptCells(m, t) ==
    LET filled == IF m.present THEN fillna(t, m.games) ELSE t
    IN  UNION {{<<filled[i].GAME_ID, c>> : c \in MissingIn(filled[i].box) \ {"FG3_PCT"}} :
                  i \in DOMAIN filled}

impute_team_game_data_no_prompt(m, t, answers) ==
    LET filled == IF m.present THEN fillna(t, m.games) ELSE t
    IN  [kind |-> "return", exc |-> None, rows |-> adjust_table(filled),
         early |-> FALSE, games |-> m.games, saved |-> TRUE]

impute_team_game_data(m, t, answers) ==
    LET filled == IF m.present THEN fillna(t, m.games) ELSE t
    IN  IF m.present /\ ~AnyMissing(filled)
        THEN [kind |-> "return", exc |-> None, rows |-> filled, early |-> TRUE,
              games |-> m.games, saved |-> FALSE]
        ELSE IF ~m.present /\ AnyMissingCount(filled)
        THEN [kind |-> "raise", exc |-> "KeyError", rows |-> <<>>, early |-> FALSE,
              games |-> m.games, saved |-> FALSE]
        ELSE LET st == AskRows([t |-> filled, games |-> m.games, exc |-> None],
                               filled, 1, answers)
             IN  IF st.exc # None
                 THEN [kind |-> "raise", exc |-> st.exc, rows |-> <<>>, early |-> FALSE,
                       games |-> st.games, saved |-> FALSE]
                 ELSE [kind |-> "return", exc |-> None, rows |-> adjust_table(st.t),
                       early |-> FALSE, games |-> st.games, saved |-> TRUE]

NoImpute == [kind |-> "none", exc |-> None, rows |-> <<>>, early |-> FALSE,
             answers |-> <<>>]

ImputeTeamGameData ==
    /\ out.kind = "none"
    /\ imputation_map.calls < MaxImputeCalls
    /\ \E answers \in [PromptCells(imputation_map, table) -> Answers] :
         \E res \in {impute_team_game_data(imputation_map, table, answers)} :
            /\ out' = [kind |-> res.kind, exc |-> res.exc, rows |-> res.rows,
                       early |-> res.early, answers |-> answers]
            /\ imputation_map' = [imputation_map EXCEPT !.games = res.games,
                                                        !.calls = @ + 1]
    /\ UNCHANGED <<retrieverVars, gameVars, cat, row, table, pool>>

\* the next table of the same team is cleaned and handed over
NextCleanedTable ==
    /\ out.kind # "none"
    /\ table' \in CleanedTables
    /\ out' = NoImpute
    /\ UNCHANGED <<retrieverVars, gameVars, cat, row, imputation_map, pool>>

InitImpute ==
    /\ table \in CleanedTables
    /\ out = NoImpute
    /\ imputation_map \in {[present |-> p, games |-> [g \in {} |-> NaN], calls |-> 0] :
                              p \in BOOLEAN}
    /\ cat = None
    /\ row = None
    /\ pool = None

InitI == InitRetriever /\ InitIdleGames /\ InitImpute
NextI == ImputeTeamGameData \/ NextCleanedTable
SpecImpute == InitI /\ [][NextI]_vars

(***************************************************************************)
(* Claims about the imputation.                                            *)
(***************************************************************************)
MissingCounts(r) == MissingIn(r.box) \ {"FG3_PCT"}

ZeroAttemptsZeroPct(r) == r.box.FG3A = R(0) => r.box.FG3_PCT = R(0)

\* the user declared the cell missing, in this call or in an earlier one
DeclaredMissing(g, c) ==
    /\ g \in DOMAIN imputation_map.games
    /\ c \in DOMAIN imputation_map.games[g]
    /\ IsNaN(imputation_map.games[g][c])

MaxTasks == 3
MaxWorkers == 2

FanOuts == {"load_team_games", "load_all_team_games", "get_multiple_teams_games"}

\* what a task ends with: a table, None (file not found), or an exception
TaskOutcomes == {"table", "none", "exc"}

NoPool == [fan |-> None, pc |-> "idle", requested |-> 0, cpu_count |-> 0,
           max_workers |-> 0, tasks |-> <<>>, merged |-> NoDf, exc |-> None]

\* os.cpu_count() or 0: None on a machine whose CPU count is unknown
CpuCounts == {0, 1, 2, 64}

Min(a, b) == IF a <= b THEN a ELSE b
Max(a, b) == IF a >= b THEN a ELSE b

\* min(max_workers, max(int(os.cpu_count() or 0), max_workers) + 4)
worker_count_by_cpu(max_workers, cpu_count) == Min(max_workers, Max(cpu_count, 1))

worker_count(max_workers, cpu_count) == Min(max_workers, Max(cpu_count, max_workers) + 4)

Task(outcome) == [state |-> "pending", outcome |-> outcome, result |-> NoDf]

Running(ts) == {i \in DOMAIN ts : ts[i].state = "running"}

\* concurrent.futures.wait(futures) with return_when=ALL_COMPLETED, and
\* Executor.shutdown(wait=True): the caller resumes once no task is pending
\* or running
FirstCompleted(ts) == \E i \in DOMAIN ts : ts[i].state \in {"done", "failed"}

AllCompleted(ts) == \A i \in DOMAIN ts : ts[i].state \in {"done", "failed"}

\* pd.concat(objs): None entries are dropped, the tables are stacked in order
RECURSIVE ConcatRows(_)
ConcatRows(rs) ==
    IF rs = <<>> THEN <<>>
    ELSE (IF IsTable(Head(rs)) THEN Head(rs).rows ELSE <<>>) \o ConcatRows(Tail(rs))

\* executor.submit for every season or team id / executor.map over team_ids;
\* get_multiple_teams_games reads the undefined self.all_team_ids when
\* team_ids is empty or None
Submit ==
    /\ pool.pc = "idle"
    /\ \E fan \in FanOuts, n \in 0..MaxTasks, w \in 1..MaxWorkers, cpu \in CpuCounts :
         \E outcomes \in [1..n -> TaskOutcomes] :
            pool' = IF fan = "get_multiple_teams_games" /\ n = 0
                    THEN [NoPool EXCEPT !.fan = fan, !.pc = "raised",
                                        !.exc = "AttributeError"]
                    ELSE [fan |-> fan, pc |-> "waiting", requested |-> w,
                          cpu_count |-> cpu, max_workers |-> worker_count(w, cpu),
                          tasks |-> [i \in 1..n |-> Task(outcomes[i])],
                          merged |-> NoDf, exc |-> None]
    /\ UNCHANGED <<retrieverVars, gameVars, statVars, imputation_map>>

\* an idle worker takes the oldest queued task
StartTask ==
    /\ pool.pc = "waiting"
    /\ Cardinality(Running(pool.tasks)) < pool.max_workers
    /\ \E i \in DOMAIN pool.tasks :
         /\ pool.tasks[i].state = "pending"
         /\ \A j \in 1..(i - 1) : pool.tasks[j].state # "pending"
         /\ pool' = [pool EXCEPT !.tasks[i].state = "running"]
    /\ UNCHANGED <<retrieverVars, gameVars, statVars, imputation_map>>

\* a running task returns or raises
FinishTask ==
    /\ \E i \in Running(pool.tasks) :
         pool' = [pool EXCEPT
                    !.tasks[i].state = IF pool.tasks[i].outcome = "exc"
                                       THEN "failed" ELSE "done",
                    !.tasks[i].result = IF pool.tasks[i].outcome = "table"
                                        THEN Df(<<i>>) ELSE NoDf]
    /\ UNCHANGED <<retrieverVars, gameVars, statVars, imputation_map>>

\* wait(futures) returns / the with block is left
Join ==
    /\ pool.pc = "waiting"
    /\ AllCompleted(pool.tasks)
    /\ pool' = [pool EXCEPT !.pc = "joined"]
    /\ UNCHANGED <<retrieverVars, gameVars, statVars, imputation_map>>

\* [future.result() for future in futures] / list(results), then pd.concat:
\* the first failed task's exception is raised; all-None raises ValueError
Merge ==
    /\ pool.pc = "joined"
    /\ LET ts == pool.tasks
           failed == {i \in DOMAIN ts : ts[i].state # "done"}
           results == [i \in DOMAIN ts |-> ts[i].result]
       IN  pool' =
             IF failed # {}
             THEN [pool EXCEPT !.pc = "raised", !.exc = "TaskError"]
             ELSE IF \A i \in DOMAIN ts : ~IsTable(results[i])
             THEN [pool EXCEPT !.pc = "raised", !.exc = "ValueError"]
             ELSE [pool EXCEPT !.pc = "returned", !.merged = Df(ConcatRows(results))]
    /\ UNCHANGED <<retrieverVars, gameVars, statVars, imputation_map>>

\* the caller makes another fan-out
NextFanOut ==
    /\ pool.pc \in {"returned", "raised"}
    /\ pool' = NoPool
    /\ UNCHANGED <<retrieverVars, gameVars, statVars, imputation_map>>

InitPool ==
    /\ pool = NoPool
    /\ imputation_map = None

InitP == InitRetriever /\ InitIdleGames /\ InitIdleStats /\ InitPool
NextP == Submit \/ StartTask \/ FinishTask \/ Join \/ Merge \/ NextFanOut
SpecPool == InitP /\ [][NextP]_vars

(***************************************************************************)
(* Claims about the fan-outs.                                              *)
(***************************************************************************)
\* how often the rows of task i occur in the merged table
Occurrences(i) ==
    Cardinality({k \in DOMAIN pool.merged.rows : pool.merged.rows[k] = i})

\* C18: the merged table exists only once every submitted task has
\* completed; it holds the result of every task exactly once, in submission
\* order; no merged table is returned while a task is pending or running or
\* when a task has failed.
C18_MergeAfterAllTasks ==
    /\ pool.pc \in {"joined", "returned", "raised"} =>
          \A i \in DOMAIN pool.tasks : pool.tasks[i].state \notin {"pending", "running"}
    /\ pool.pc # "returned" => ~IsTable(pool.merged)
    /\ pool.pc = "returned" =>
          /\ \A i \in DOMAIN pool.tasks : pool.tasks[i].state = "done"
          /\ \A i \in DOMAIN pool.tasks :
                Occurrences(i) = IF pool.tasks[i].outcome = "table" THEN 1 ELSE 0
          /\ \A k \in DOMAIN pool.merged.rows :
                /\ pool.merged.rows[k] \in DOMAIN pool.tasks
                /\ \A l \in DOMAIN pool.merged.rows :
                      k < l => pool.merged.rows[k] < pool.merged.rows[l]
    /\ (pool.pc \in {"joined", "raised"} /\
        \E i \in DOMAIN pool.tasks : pool.tasks[i].state = "failed") =>
          ~IsTable(pool.merged)

C18_Witness ==
    /\ pool.pc = "returned"
    /\ Len(pool.tasks) = MaxTasks
    /\ pool.max_workers < Len(pool.tasks)
    /\ pool.merged.rows = [i \in 1..MaxTasks |-> i]

(***************************************************************************)
(* TeamGameData.get_multiple_teams_games: one get_team_games task per      *)
(* entry of team_ids, run by the pool's workers.  A task reads the         *)
(* requested file, and when it is missing retrieves the games, tests       *)
(* os.path.isfile on the raw path, writes it, cleans, tests the interim    *)
(* path and writes it.  Each test and each write is a step of its own.     *)
(***************************************************************************)
MaxTeams == 2

\* the team_ids argument: any list of team ids
TeamIdLists == UNION {[1..n -> TeamIds] : n \in 1..MaxTeams}

\* os.path.join(folder_map[folder_type], "games", season type, "<team_id>.parquet")
games_pth(folder_type, team_id, season_type) == <<folder_type, <<team_id, season_type>>, "parquet">>

FetchTask(team_id) ==
    [state |-> "pending", outcome |-> "table", result |-> NoDf,
     team_id |-> team_id, step |-> "load", df |-> NoDf, wrote |-> {}]

\* team_ids = team_ids or self.all_team_ids; executor.map(self.get_team_games, ...)
FetchSubmit ==
    /\ pool.pc = "idle"
    /\ \E team_ids \in TeamIdLists, st \in SeasonTypes, folder_type \in FolderTypes,
          w \in 1..MaxWorkers, cpu \in CpuCounts :
         pool' = [fan |-> "get_multiple_teams_games", pc |-> "waiting",
                  requested |-> w, cpu_count |-> cpu,
                  max_workers |-> worker_count(w, cpu),
                  season_type |-> st, folder_type |-> folder_type,
                  tasks |-> [i \in DOMAIN team_ids |-> FetchTask(team_ids[i])],
                  merged |-> NoDf, exc |-> None]
    /\ UNCHANGED <<retrieverVars, gameVars, statVars, imputation_map>>

\* get_team_games up to the request: _load_team_games, then, when there is
\* no such file, _retrieve_team_games, which returns the games or raises
FetchLoad ==
    /\ \E i \in Running(pool.tasks) :
         /\ pool.tasks[i].step = "load"
         /\ \E k \in {<<pool.tasks[i].team_id, pool.season_type>>}, ok \in BOOLEAN :
            LET df_games == load_team_games(files, k, pool.folder_type)
            IN pool' =
                 IF IsTable(df_games)
                 THEN [pool EXCEPT !.tasks[i].state = "done", !.tasks[i].step = "end",
                                   !.tasks[i].result = df_games]
                 ELSE IF ok
                 THEN [pool EXCEPT !.tasks[i].step = "isfile_raw",
                                   !.tasks[i].df = RemoteTable(remote)]
                 ELSE [pool EXCEPT !.tasks[i].state = "failed", !.tasks[i].step = "end",
                                   !.tasks[i].outcome = "exc"]
    /\ UNCHANGED <<retrieverVars, gameVars, statVars, imputation_map>>

\* if not os.path.isfile(raw_pth) / if not os.path.isfile(interim_pth)
FetchIsFile ==
    /\ \E i \in Running(pool.tasks), folder \in {"raw", "interim"} :
         /\ pool.tasks[i].step = "isfile_" \o folder
         /\ pool' =
              IF ~files[games_pth(folder, pool.tasks[i].team_id, pool.season_type)].exists
              THEN [pool EXCEPT !.tasks[i].step = "save_" \o folder]
              ELSE IF folder = "raw"
              THEN [pool EXCEPT !.tasks[i].step = "isfile_interim",
                                !.tasks[i].df = clean_team_games(pool.tasks[i].df)]
              ELSE [pool EXCEPT !.tasks[i].state = "done", !.tasks[i].step = "end",
                                !.tasks[i].result = pool.tasks[i].df]
    /\ UNCHANGED <<retrieverVars, gameVars, statVars, imputation_map>>

\* self._save_team_games(..., folder_type="raw") / (..., folder_type="interim")
FetchSave ==
    /\ \E i \in Running(pool.tasks), folder \in {"raw", "interim"} :
         /\ pool.tasks[i].step = "save_" \o folder
         /\ \E p \in {games_pth(folder, pool.tasks[i].team_id, pool.season_type)} :
            /\ files' = [files EXCEPT ![p] = File(pool.tasks[i].df)]
            /\ pool' =
                 IF folder = "raw"
                 THEN [pool EXCEPT !.tasks[i].step = "isfile_interim",
                                   !.tasks[i].wrote = @ \cup {p},
                                   !.tasks[i].df = clean_team_games(pool.tasks[i].df)]
                 ELSE [pool EXCEPT !.tasks[i].state = "done", !.tasks[i].step = "end",
                                   !.tasks[i].wrote = @ \cup {p},
                                   !.tasks[i].result = pool.tasks[i].df]
    /\ UNCHANGED <<retrieverVars, gcache, glast, statVars, imputation_map>>

InitFetch ==
    /\ pool = NoPool
    /\ imputation_map = None
    /\ gcache = [k \in Keys |-> NoEntry]
    /\ files \in InitialFiles
    /\ glast = NoGameCall

InitT == InitRetriever /\ InitFetch /\ InitIdleStats
NextT == FetchSubmit \/ StartTask \/ FetchLoad \/ FetchIsFile \/ FetchSave \/ Join \/ Merge \/ NextFanOut
SpecFetch == InitT /\ [][NextT]_vars

(***************************************************************************)
(* Claims about the fetch tasks.                                           *)
(***************************************************************************)
\* the paths task i has written or is about to write after its isfile test
Destinations(i) ==
    pool.tasks[i].wrote \cup
    {games_pth(folder, pool.tasks[i].team_id, pool.season_type) :
        folder \in {f \in {"raw", "interim"} : pool.tasks[i].step = "save_" \o f}}

InFetch == pool.fan = "get_multiple_teams_games" /\ pool.pc # "idle"

\* C19: in a get_multiple_teams_games fan-out no two tasks write to the same
\* file path, whatever the interleaving of their isfile tests and writes.
C19_OwnDestinationFiles ==
    InFetch => \A i, j \in DOMAIN pool.tasks :
                  i # j => Destinations(i) \cap Destinations(j) = {}

\* C19, for tasks of different teams: their destination files differ.
C19_DistinctTeamsOwnFiles ==
    InFetch => \A i, j \in DOMAIN pool.tasks :
                  pool.tasks[i].team_id # pool.tasks[j].team_id =>
                     Destinations(i) \cap Destinations(j) = {}

C19_DistinctTeamsWitness ==
    /\ InFetch
    /\ \E i, j \in DOMAIN pool.tasks :
          /\ pool.tasks[i].team_id # pool.tasks[j].team_id
          /\ pool.tasks[i].step = "save_raw"
          /\ pool.tasks[j].step = "save_raw"

(***************************************************************************)
(* The persisted layout: Data.folder_map, the saver's and the loader's     *)
(* paths for one team's games of one season.  A path is the sequence of    *)
(* its components; a string that the code splits is the sequence of its    *)
(* parts (words of a season type, dot-separated parts of a file name).     *)
(***************************************************************************)
MaxLayoutCalls == 2

OuterFolders == {"external", "internal"}
InnerFolders == {"raw", "interim", "processed", "inputation"}
SeasonTypeNames == {<<"Pre", "Season">>, <<"Regular", "Season">>, <<"Playoffs">>}
Seasons == {"2022-23"}

\* config.directory.ROOT_DIR, the repository's root
ROOT_DIR == <<"ROOT_DIR">>

\* the folder setters: os.path.realpath(os.path.join(ROOT_DIR, folder))
realpath_join(folder) == ROOT_DIR \o folder

\* Data.__init__: the seven folders and the two-level map over them
folder_map ==
    [external |-> [raw |-> realpath_join(<<"data", "external", "raw">>),
                   interim |-> realpath_join(<<"data", "external", "interim">>),
                   processed |-> realpath_join(<<"data", "external", "processed">>)],
     internal |-> [raw |-> realpath_join(<<"data", "internal", "raw">>),
                   interim |-> realpath_join(<<"data", "internal", "interim">>),
                   processed |-> realpath_join(<<"data", "internal", "processed">>),
                   inputation |-> realpath_join(<<"data", "internal", "inputation">>)]]

\* utils.data.join_str: "".join(s.split())
RECURSIVE join_str(_)
join_str(s) == IF s = <<>> THEN "" ELSE Head(s) \o join_str(Tail(s))

\* if data_name.split(".")[-1] != "parquet": data_name += ".parquet"
parquet_name(data_name) ==
    IF data_name[Len(data_name)] # "parquet" THEN Append(data_name, "parquet") ELSE data_name

\* the saver's subdir: f"teams/games/{join_str(season_type)}/{season}"
save_subdir(season_type, season) == <<"teams", "games", join_str(season_type), season>>

\* the loader's subdir: f"teams/games/{join_str(season_type_nullable)}/{season}"
load_subdir_without_season(season_type_nullable, season) == <<"teams", "games", join_str(season_type_nullable), "ALL">>

load_subdir(season_type_nullable, season) == <<"teams", "games", join_str(season_type_nullable), season>>

NoDisk == [p \in {} |-> NoDf]

\* DataSaver.save_dataframe: the folder lookup raises KeyError for a pair the
\* map does not hold; a missing directory is created and the write repeated
save_dataframe(f, df, outer_folder, inner_folder, subdir, data_name) ==
    IF inner_folder \notin DOMAIN folder_map[outer_folder]
    THEN [files |-> f, kind |-> "raise", exc |-> "KeyError", pth |-> <<>>, value |-> NoDf]
    ELSE LET pth == folder_map[outer_folder][inner_folder] \o subdir
                      \o <<parquet_name(data_name)>>
         IN [files |-> (pth :> df) @@ f, kind |-> "return", exc |-> None,
             pth |-> pth, value |-> NoDf]

\* DataLoader.load_dataframe: None when the file is not found
load_dataframe(f, outer_folder, inner_folder, subdir, data_name) ==
    IF inner_folder \notin DOMAIN folder_map[outer_folder]
    THEN [files |-> f, kind |-> "raise", exc |-> "KeyError", pth |-> <<>>, value |-> NoDf]
    ELSE LET pth == folder_map[outer_folder][inner_folder] \o subdir
                      \o <<parquet_name(data_name)>>
         IN [files |-> f, kind |-> "return", exc |-> None, pth |-> pth,
             value |-> IF pth \in DOMAIN f THEN f[pth] ELSE NoDf]

\* TeamGameDataSaver.save_team_season_game_data
SaveTeamSeasonGameData ==
    /\ ncalls < MaxLayoutCalls
    /\ \E team_id \in TeamIds, season_type \in SeasonTypeNames, season \in Seasons,
          outer_folder \in OuterFolders, inner_folder \in InnerFolders :
         \E g \in {save_dataframe(files, Df(<<team_id, season_type, season>>),
                                  outer_folder, inner_folder,
                                  save_subdir(season_type, season),
                                  <<ToString(team_id)>>)} :
            /\ files' = g.files
            /\ glast' = [op |-> "save", team_id |-> team_id, season_type |-> season_type,
                         season |-> season, outer |-> outer_folder,
                         inner |-> inner_folder, kind |-> g.kind, exc |-> g.exc,
                         pth |-> g.pth, value |-> g.value]
    /\ ncalls' = ncalls + 1
    /\ UNCHANGED <<now, remote, cache, last, gcache, statVars, auxVars>>

\* TeamGameDataLoader.load_team_season_games
LoadTeamSeasonGames ==
    /\ \E team_id \in TeamIds, season_type \in SeasonTypeNames, season \in Seasons :
         \E g \in {load_dataframe(files, "external", "processed",
                                  load_subdir(season_type, season),
                                  <<ToString(team_id)>>)} :
            glast' = [op |-> "load", team_id |-> team_id, season_type |-> season_type,
                      season |-> season, outer |-> "external", inner |-> "processed",
                      kind |-> g.kind, exc |-> g.exc, pth |-> g.pth, value |-> g.value]
    /\ UNCHANGED <<retrieverVars, gcache, files, statVars, auxVars>>

InitLayout ==
    /\ gcache = [k \in Keys |-> NoEntry]
    /\ files = NoDisk
    /\ glast = [op |-> "none"]

InitL == InitRetriever /\ InitLayout /\ InitIdleStats /\ InitIdleAux
NextL == SaveTeamSeasonGameData \/ LoadTeamSeasonGames
SpecLayout == InitL /\ [][NextL]_vars

(***************************************************************************)
(* Claims about the layout.                                                *)
(***************************************************************************)
\* the season type's folder name as the layout spells it
WithoutSpaces(season_type) ==
    CASE season_type = <<"Pre", "Season">> -> "PreSeason"
      [] season_type = <<"Regular", "Season">> -> "RegularSeason"
      [] season_type = <<"Playoffs">> -> "Playoffs"

LayoutPath(outer, inner, season_type, season, team_id) ==
    <<"ROOT_DIR", "data", outer, inner, "teams", "games", WithoutSpaces(season_type),
      season, <<ToString(team_id), "parquet">> >>

\* a save under external/processed is stored at the layout's path
SavedAtLayoutPath ==
    (glast.op = "save" /\ glast.kind = "return") =>
        /\ glast.pth = LayoutPath(glast.outer, glast.inner, glast.season_type,
                                  glast.season, glast.team_id)
        /\ files[glast.pth] = Df(<<glast.team_id, glast.season_type, glast.season>>)

\* a load reads the layout's path: it returns what was saved for the same
\* (team_id, season type, season) under external/processed, None otherwise
LoadReadsLayoutPath ==
    glast.op = "load" =>
        /\ glast.kind = "return"
        /\ glast.pth = LayoutPath("external", "processed", glast.season_type,
                                  glast.season, glast.team_id)
        /\ glast.value = IF glast.pth \in DOMAIN files
                         THEN Df(<<glast.team_id, glast.season_type, glast.season>>)
                         ELSE NoDf

Sidecars == {"team_metadata", "team_ids", "team_id_map", "team_abbreviation_map", "imputation_map"}
ObjectVersions == {1, 2}

NoObj == [kind |-> "none", version |-> 0]

\* the arguments each save method passes to DataSaver.save_data
SaverArgs ==
    [team_metadata |-> [outer |-> "external", inner |-> "raw", subdir |-> <<"teams">>,
                        data_name |-> <<"metadata">>],
     team_ids |-> [outer |-> "external", inner |-> "processed", subdir |-> <<"teams">>,
                   data_name |-> <<"team_ids">>],
     team_id_map |-> [outer |-> "external", inner |-> "processed", subdir |-> <<"teams">>,
                      data_name |-> <<"team_id_map">>],
     team_abbreviation_map |-> [outer |-> "external", inner |-> "processed",
                                subdir |-> <<"teams">>,
                                data_name |-> <<"team_abbreviation_map">>],
     imputation_map |-> [outer |-> "internal", inner |-> "inputation",
                         subdir |-> <<"teams", "games">>,
                         data_name |-> <<"inputation_map", "pickle">>]]

\* the arguments each load method passes to DataLoader.load_data
LoaderArgs ==
    [team_metadata |-> [outer |-> "external", inner |-> "processed", subdir |-> <<"teams">>,
                        data_name |-> <<"metadata", "pickle">>],
     team_ids |-> [outer |-> "external", inner |-> "processed", subdir |-> <<"teams">>,
                   data_name |-> <<"team_ids", "pickle">>],
     team_id_map |-> [outer |-> "external", inner |-> "processed", subdir |-> <<"teams">>,
                      data_name |-> <<"team_id_map", "pickle">>],
     team_abbreviation_map |-> [outer |-> "external", inner |-> "processed",
                                subdir |-> <<"teams">>,
                                data_name |-> <<"abbreviation_map", "pickle">>],
     imputation_map |-> [outer |-> "internal", inner |-> "inputation",
                         subdir |-> <<"teams", "games">>,
                         data_name |-> <<"imputation_map", "pickle">>]]

\* if data_name.split(".")[-1] != "pickle": data_name += ".pickle"
pickle_name(data_name) ==
    IF data_name[Len(data_name)] # "pickle" THEN Append(data_name, "pickle") ELSE data_name

\* the path DataSaver.save_data and DataLoader.load_data open
pickle_pth(a) == folder_map[a.outer][a.inner] \o a.subdir \o <<pickle_name(a.data_name)>>

\* DataLoader.load_data: None when the file is not found
load_data(f, a) == IF pickle_pth(a) \in DOMAIN f THEN f[pickle_pth(a)] ELSE NoObj

\* a save method of TeamDataSaver, or the save that ends impute_team_game_data
SaveSidecar ==
    /\ \E k \in Sidecars, v \in ObjectVersions :
         /\ files' = (pickle_pth(SaverArgs[k]) :> [kind |-> k, version |-> v]) @@ files
         /\ glast' = [op |-> "save", kind |-> k, value |-> NoObj,
                      saved |-> [glast.saved EXCEPT ![k] = [kind |-> k, version |-> v]]]
    /\ UNCHANGED <<retrieverVars, gcache, statVars, auxVars>>

\* the matching load method
LoadSidecar ==
    /\ \E k \in Sidecars :
         glast' = [op |-> "load", kind |-> k, value |-> load_data(files, LoaderArgs[k]),
                   saved |-> glast.saved]
    /\ UNCHANGED <<retrieverVars, gcache, files, statVars, auxVars>>

InitSidecar ==
    /\ gcache = [k \in Keys |-> NoEntry]
    /\ files = NoDisk
    /\ glast = [op |-> "none", kind |-> "none", value |-> NoObj,
                saved |-> [k \in Sidecars |-> NoObj]]

InitK == InitRetriever /\ InitSidecar /\ InitIdleStats /\ InitIdleAux
NextK == SaveSidecar \/ LoadSidecar
SpecSidecar == InitK /\ [][NextK]_vars

\* C21: a load issued after a save of the same sidecar returns the saved
\* object, for each of the five sidecars.
C21_SidecarRoundTrip ==
    (glast.op = "load" /\ glast.saved[glast.kind] # NoObj) =>
        glast.value = glast.saved[glast.kind]

\* C21, for the two sidecars whose save and load name the same file
C21_TeamIdsRoundTrip ==
    (glast.op = "load" /\ glast.kind \in {"team_ids", "team_id_map"}
       /\ glast.saved[glast.kind] # NoObj) =>
        glast.value = glast.saved[glast.kind]

(***************************************************************************)
(* TeamGameDataLoader.load_all_team_games over the files on disk: the team *)
(* ids pickle and the per-season parquet files under external/processed.   *)
(* The loader was constructed on folders that list one season.             *)
(***************************************************************************)
AnySeasonTypes == SeasonTypeNames \cup {<<"Summer", "League">>}
StatAggTypes == {"raw", "expanding", "rolling"}
AnyStatAggTypes == StatAggTypes \cup {"median"}
TeamIdFiles == {<<>>, <<1610612737>>, <<1610612737, 1610612738>>}

\* self.regular_season_ids / self.playoff_season_ids, listed at construction
season_ids(season_type_nullable) == <<"2022-23">>

\* TeamGameDataLoader.load_team_games: one load_team_season_games per season
\* id, then pd.concat, which raises ValueError when no season gave a table
loader_load_team_games(f, team_id, season_type_nullable) ==
    LET ids == season_ids(season_type_nullable)
        got == [i \in DOMAIN ids |->
                  load_dataframe(f, "external", "processed",
                                 load_subdir(season_type_nullable, ids[i]),
                                 <<ToString(team_id)>>).value]
    IN IF \A i \in DOMAIN got : ~IsTable(got[i])
       THEN [kind |-> "raise", exc |-> "ValueError", value |-> NoDf]
       ELSE [kind |-> "return", exc |-> None, value |-> Df(ConcatRows(got))]

\* TeamGameDataLoader.load_all_team_games
load_all_team_games(f, season_type_nullable, add_stats, stat_agg_type) ==
    LET team_ids == load_data(f, LoaderArgs.team_ids)
    IN IF team_ids = NoObj
       THEN \* for team_id in None
            [kind |-> "raise", exc |-> "TypeError", value |-> "none"]
       ELSE LET results == [i \in DOMAIN team_ids.ids |->
                              loader_load_team_games(f, team_ids.ids[i],
                                                     season_type_nullable)]
            IN IF \E i \in DOMAIN results : results[i].kind = "raise"
               THEN [kind |-> "raise", exc |-> "ValueError", value |-> "none"]
               ELSE IF team_ids.ids = <<>>
               THEN \* pd.concat of an empty list
                    [kind |-> "raise", exc |-> "ValueError", value |-> "none"]
               ELSE IF ~add_stats
               THEN [kind |-> "return", exc |-> None, value |-> "team_games"]
               ELSE IF stat_agg_type = "raw"
               THEN [kind |-> "return", exc |-> None, value |-> "merged team_games"]
               ELSE IF stat_agg_type \in {"expanding", "rolling"}
               THEN [kind |-> "return", exc |-> None, value |-> "team_games, cum_stats"]
               ELSE [kind |-> "raise", exc |-> "ValueError", value |-> "none"]

\* an earlier run saved the team ids
PutTeamIds ==
    /\ \E ids \in TeamIdFiles :
         files' = (pickle_pth(SaverArgs.team_ids) :>
                     [kind |-> "team_ids", version |-> 1, ids |-> ids]) @@ files
    /\ UNCHANGED <<retrieverVars, gcache, glast, statVars, auxVars>>

\* an earlier run saved one team's games of the season under a season type
PutSeasonGames ==
    /\ \E team_id \in TeamIds, season_type \in AnySeasonTypes :
         files' = save_dataframe(files, Df(<<team_id>>), "external", "processed",
                                 save_subdir(season_type, "2022-23"),
                                 <<ToString(team_id)>>).files
    /\ UNCHANGED <<retrieverVars, gcache, glast, statVars, auxVars>>

LoadAllTeamGames ==
    /\ \E season_type \in AnySeasonTypes, add_stats \in BOOLEAN,
          stat_agg_type \in AnyStatAggTypes :
         \E g \in {load_all_team_games(files, season_type, add_stats, stat_agg_type)} :
            glast' = [op |-> "load_all_team_games", season_type |-> season_type,
                      add_stats |-> add_stats, stat_agg_type |-> stat_agg_type,
                      kind |-> g.kind, exc |-> g.exc, value |-> g.value]
    /\ UNCHANGED <<retrieverVars, gcache, files, statVars, auxVars>>

InitLoadAll ==
    /\ gcache = [k \in Keys |-> NoEntry]
    /\ files = NoDisk
    /\ glast = [op |-> "none"]

InitA == InitRetriever /\ InitLoadAll /\ InitIdleStats /\ InitIdleAux
NextA == PutTeamIds \/ PutSeasonGames \/ LoadAllTeamGames
SpecLoadAll == InitA /\ [][NextA]_vars

\* C22: load_all_team_games raises ValueError whenever the season type or
\* the aggregation type is not one of the accepted values, whatever
\* add_stats is.
C22_InvalidArgumentRaises ==
    (glast.op = "load_all_team_games" /\
     (glast.season_type \notin SeasonTypeNames \/ glast.stat_agg_type \notin StatAggTypes)) =>
        (glast.kind = "raise" /\ glast.exc = "ValueError")

\* C22, the case the code does check: an unknown aggregation type with
\* add_stats set ends in ValueError once the tables were loaded
C22_InvalidAggregationWithStats ==
    (glast.op = "load_all_team_games" /\ glast.add_stats /\
     glast.stat_agg_type \notin StatAggTypes /\ glast.exc # "TypeError") =>
        (glast.kind = "raise" /\ glast.exc = "ValueError")

(***************************************************************************)
(* Claims about the pairing made by _merge_team_games.                     *)
(***************************************************************************)
\* how often an input row is the team row / the opponent row of the result
TimesAsTeam(r) == Cardinality({i \in DOMAIN out.rows : out.rows[i].row = r})
TimesAsOpponent(r) == Cardinality({i \in DOMAIN out.rows : out.rows[i].opp = r})

PairedOneToOne ==
    /\ \A i \in DOMAIN out.rows :
          /\ out.rows[i].opp.GAME_ID = out.rows[i].row.GAME_ID
          /\ out.rows[i].opp.TEAM_ID # out.rows[i].row.TEAM_ID
          /\ out.rows[i].opp.HOME = ~out.rows[i].row.HOME
    /\ \A k \in DOMAIN table :
          TimesAsTeam(table[k]) = 1 /\ TimesAsOpponent(table[k]) = 1

\* C23: after the merge every output row pairs a team row with its
\* opponent row (same game, other team, opposite home flag), and every input
\* row is a team row once and an opponent row once.
C23_PairedWithOpponent == out.kind = "return" => PairedOneToOne

\* C23, for tables that hold both rows of every game they mention
C23_CompleteTablesPaired ==
    (out.kind = "return" /\ \A k \in DOMAIN table : HasOpponentRow(table, table[k])) =>
        PairedOneToOne

C23_CompleteTablesWitness ==
    /\ out.kind = "return"
    /\ Len(table) = 4
    /\ PairedOneToOne

(***************************************************************************)
(* TeamDataCleaner.create_team_id_map and create_team_abbreviation_map.    *)
(* A Python dict is the sequence of its (key, value) items in insertion    *)
(* order; assigning to a key it holds replaces the value in place.         *)
(***************************************************************************)
MaxMetadata == 3

\* entries of the team metadata the provider may return
TeamEntries ==
    {[id |-> 1610612737, nickname |-> "Hawks", city |-> "Atlanta", abbreviation |-> "ATL"],
     [id |-> 1610612738, nickname |-> "Celtics", city |-> "Boston", abbreviation |-> "BOS"],
     [id |-> 1610612747, nickname |-> "Lakers", city |-> "Los Angeles", abbreviation |-> "LAL"],
     [id |-> 1610612746, nickname |-> "Clippers", city |-> "Los Angeles", abbreviation |-> "LAC"],
     [id |-> 1610612799, nickname |-> "Boston", city |-> "Springfield", abbreviation |-> "SPR"]}

\* metadata lists: each team once
MetadataLists ==
    {m \in UNION {[1..n -> TeamEntries] : n \in 1..MaxMetadata} :
        \A i, j \in DOMAIN m : i # j => m[i].id # m[j].id}

\* d[k] = v
DictSet(d, k, v) ==
    IF \E i \in DOMAIN d : d[i][1] = k
    THEN [i \in DOMAIN d |-> IF d[i][1] = k THEN <<k, v>> ELSE d[i]]
    ELSE Append(d, <<k, v>>)

\* create_team_id_map: nickname, city and abbreviation of every team, in turn
RECURSIVE create_team_id_map_from(_, _)
create_team_id_map_from(d, team_metadata) ==
    IF team_metadata = <<>> THEN d
    ELSE LET team == Head(team_metadata)
         IN create_team_id_map_from(
                DictSet(DictSet(DictSet(d, team.nickname, team.id), team.city, team.id),
                        team.abbreviation, team.id),
                Tail(team_metadata))

create_team_id_map(team_metadata) == create_team_id_map_from(<<>>, team_metadata)

\* {id: name for i, (name, id) in enumerate(team_id_map.items()) if i % 3 == 0}
RECURSIVE abbreviation_map_from(_, _, _)
abbreviation_map_from(d, items, i) ==
    IF i > Len(items) THEN d
    ELSE abbreviation_map_from(
            IF (i - 1) % 3 = 0 THEN DictSet(d, items[i][2], items[i][1]) ELSE d,
            items, i + 1)

create_team_abbreviation_map(team_id_map) == abbreviation_map_from(<<>>, team_id_map, 1)

\* wrangle_team_data's last two steps on the metadata
CreateTeamMaps ==
    /\ out.kind = "none"
    /\ out' = [kind |-> "return", team_id_map |-> create_team_id_map(table),
               team_abbreviation_map |->
                   create_team_abbreviation_map(create_team_id_map(table))]
    /\ UNCHANGED <<retrieverVars, gameVars, auxVars, cat, row, table>>

NextMetadata ==
    /\ out.kind # "none"
    /\ table' \in MetadataLists
    /\ out' = [kind |-> "none"]
    /\ UNCHANGED <<retrieverVars, gameVars, auxVars, cat, row>>

InitTeamMaps ==
    /\ table \in MetadataLists
    /\ out = [kind |-> "none"]
    /\ cat = None
    /\ row = None

InitD == InitRetriever /\ InitIdleGames /\ InitTeamMaps /\ InitIdleAux
NextD == CreateTeamMaps \/ NextMetadata
SpecTeamMaps == InitD /\ [][NextD]_vars

\* the value the abbreviation map holds for a team id
ValuesFor(d, id) == {d[i][2] : i \in {j \in DOMAIN d : d[j][1] = id}}

\* C24: the abbreviation map built from the id map of a metadata list has
\* exactly one entry per team id of the list, and it maps every id to that
\* team's abbreviation.
C24_AbbreviationPerTeam ==
    out.kind = "return" =>
        /\ Len(out.team_abbreviation_map) = Len(table)
        /\ \A k \in DOMAIN table :
              ValuesFor(out.team_abbreviation_map, table[k].id) = {table[k].abbreviation}

\* C24, what the code does when no two names of the list coincide: one
\* entry per team id, holding the team's nickname
C24_DistinctNamesGiveNickname ==
    (out.kind = "return" /\ Len(out.team_id_map) = 3 * Len(table)) =>
        /\ Len(out.team_abbreviation_map) = Len(table)
        /\ \A k \in DOMAIN table :
              ValuesFor(out.team_abbreviation_map, table[k].id) = {table[k].nickname}

(***************************************************************************)
(* TeamGameDataWrangler.wrangle_team_game_data, one stage per step, on an  *)
(* instance holding team_ids and a TeamGameDataCleaner.  The log lists the *)
(* files written, in order.                                                *)
(***************************************************************************)
SeasonTypeLists ==
    {<< <<"Regular", "Season">>, <<"Playoffs">> >>, << <<"Regular", "Season">> >>,
     << <<"Playoffs">>, <<"Pre", "Season">> >>, << <<"Pre", "Season">> >>, <<>>}
WranglerTeamIds == {<<>>, <<1610612737>>, <<1610612738>>, <<1610612737, 1610612738>>}

\* what retrieve_team_games hands back: the games of one or two seasons, or
\* None after the retries were used up
FetchedGames == {Df(<<"22021">>), Df(<<"22021", "22022">>), Df(<<"22021", "22022", "22021">>), NoDf}

NoRun == [op |-> "none", kind |-> "none", stage |-> "none", season_types |-> <<>>,
          team_ids |-> <<>>, si |-> 1, ti |-> 1, team_games |-> NoDf, log |-> <<>>,
          exc |-> None]

\* team_games.SEASON_ID.unique(), in order of appearance
RECURSIVE unique(_)
unique(xs) ==
    IF xs = <<>> THEN <<>>
    ELSE LET u == unique(SubSeq(xs, 1, Len(xs) - 1))
         IN IF \E i \in DOMAIN u : u[i] = xs[Len(xs)] THEN u ELSE Append(u, xs[Len(xs)])

\* _save_team_season_game_data: one save_team_season_game_data per season
RECURSIVE save_seasons(_, _, _, _, _, _)
save_seasons(st, seasons, team_games, team_id, season_type, inner_folder) ==
    IF seasons = <<>> THEN st
    ELSE LET g == save_dataframe(st.files,
                                 Df(SelectSeq(team_games.rows, LAMBDA r : r = Head(seasons))),
                                 "external", inner_folder,
                                 save_subdir(season_type, Head(seasons)),
                                 <<ToString(team_id)>>)
         IN save_seasons([files |-> g.files,
                          log |-> Append(st.log, [inner |-> inner_folder,
                                                  season_type |-> season_type,
                                                  team_id |-> team_id,
                                                  season |-> Head(seasons)])],
                         Tail(seasons), team_games, team_id, season_type, inner_folder)

\* the loops' current season type and team id
CurSeasonType == glast.season_types[glast.si]
CurTeamId == glast.team_ids[glast.ti]

\* wrangle_team_game_data is called; empty loops end the run at once
StartWrangle ==
    /\ glast.kind = "none"
    /\ \E season_types \in SeasonTypeLists, team_ids \in WranglerTeamIds :
         glast' = [NoRun EXCEPT !.op = "wrangle_team_game_data",
                                !.season_types = season_types, !.team_ids = team_ids,
                                !.kind = IF season_types = <<>> \/ team_ids = <<>>
                                         THEN "done" ELSE "running",
                                !.stage = "fetch"]
    /\ UNCHANGED <<retrieverVars, gcache, files, statVars, auxVars>>

\* _retrieve_save_raw_team_game_data: retrieve_team_games, then
\* save_team_game_data under external/raw/.../ALL; None has no to_parquet
FetchSaveRawAll ==
    /\ glast.kind = "running" /\ glast.stage = "fetch"
    /\ \E team_games \in FetchedGames :
         IF ~IsTable(team_games)
         THEN /\ glast' = [glast EXCEPT !.kind = "raised", !.exc = "AttributeError"]
              /\ files' = files
         ELSE \E g \in {save_dataframe(files, team_games, "external", "raw",
                                       <<"teams", "games", join_str(CurSeasonType), "ALL">>,
                                       <<ToString(CurTeamId)>>)} :
                /\ files' = g.files
                /\ glast' = [glast EXCEPT
                               !.team_games = team_games, !.stage = "save_raw",
                               !.log = Append(@, [inner |-> "raw",
                                                  season_type |-> CurSeasonType,
                                                  team_id |-> CurTeamId,
                                                  season |-> "ALL"])]
    /\ UNCHANGED <<retrieverVars, gcache, statVars, auxVars>>

\* _save_team_season_game_data(raw_team_games, ..., inner_folder="raw")
SaveRawSeasons ==
    /\ glast.kind = "running" /\ glast.stage = "save_raw"
    /\ \E g \in {save_seasons([files |-> files, log |-> glast.log],
                              unique(glast.team_games.rows), glast.team_games,
                              CurTeamId, CurSeasonType, "raw")} :
         /\ files' = g.files
         /\ glast' = [glast EXCEPT !.log = g.log, !.stage = "clean"]
    /\ UNCHANGED <<retrieverVars, gcache, statVars, auxVars>>

\* clean_team_game_data, then _save_team_season_game_data(..., "interim")
CleanSaveInterim ==
    /\ glast.kind = "running" /\ glast.stage = "clean"
    /\ \E g \in {save_seasons([files |-> files, log |-> glast.log],
                              unique(glast.team_games.rows), glast.team_games,
                              CurTeamId, CurSeasonType, "interim")} :
         /\ files' = g.files
         /\ glast' = [glast EXCEPT !.log = g.log, !.stage = "impute"]
    /\ UNCHANGED <<retrieverVars, gcache, statVars, auxVars>>

\* self.cleaner.inpute_team_game_data(...): TeamGameDataCleaner has no such
\* attribute (its method is impute_team_game_data), so the lookup raises and
\* the save under processed that follows is never reached
Impute ==
    /\ glast.kind = "running" /\ glast.stage = "impute"
    /\ glast' = [glast EXCEPT !.kind = "raised", !.exc = "AttributeError"]
    /\ UNCHANGED <<retrieverVars, gcache, files, statVars, auxVars>>

\* another run on the same data folder
NextRun ==
    /\ glast.kind \in {"done", "raised"}
    /\ glast' = NoRun
    /\ files' = NoDisk
    /\ UNCHANGED <<retrieverVars, gcache, statVars, auxVars>>

InitWrangle ==
    /\ gcache = [k \in Keys |-> NoEntry]
    /\ files = NoDisk
    /\ glast = NoRun

InitW == InitRetriever /\ InitWrangle /\ InitIdleStats /\ InitIdleAux
NextW == StartWrangle \/ FetchSaveRawAll \/ SaveRawSeasons \/ CleanSaveInterim \/ Impute \/ NextRun
SpecWrangle == InitW /\ [][NextW]_vars

\* the places of the log where a file of the folder was written for the
\* season type and team
Written(inner, season_type, team_id) ==
    {i \in DOMAIN glast.log : /\ glast.log[i].inner = inner
                              /\ glast.log[i].season_type = season_type
                              /\ glast.log[i].team_id = team_id}

\* C25: for every season type and team the stages run in the order fetch,
\* save raw, clean, save interim, impute, save processed: processed files
\* come after interim files, which come after raw files; a team whose interim
\* files were saved gets its processed files; and a completed run has
\* written processed files for every team and season type.
C25_StagesInOrder ==
    /\ \A i, j \in DOMAIN glast.log :
          (/\ glast.log[i].season_type = glast.log[j].season_type
           /\ glast.log[i].team_id = glast.log[j].team_id
           /\ \/ glast.log[i].inner = "raw" /\ glast.log[j].inner = "interim"
              \/ glast.log[i].inner = "interim" /\ glast.log[j].inner = "processed")
          => i < j
    /\ glast.kind \in {"done", "raised"} =>
          \A k \in DOMAIN glast.log :
              glast.log[k].inner = "interim" =>
                  Written("processed", glast.log[k].season_type, glast.log[k].team_id) # {}
    /\ glast.kind = "done" =>
          \A si \in DOMAIN glast.season_types, ti \in DOMAIN glast.team_ids :
              Written("processed", glast.season_types[si], glast.team_ids[ti]) # {}

\* C25, the part the code keeps: raw files (ALL first, then per season) are
\* written before the interim files of the same team and season type
C25_RawBeforeInterim ==
    \A i, j \in DOMAIN glast.log :
        (/\ glast.log[i].season_type = glast.log[j].season_type
         /\ glast.log[i].team_id = glast.log[j].team_id
         /\ glast.log[i].inner = "raw" /\ glast.log[j].inner = "interim")
        => i < j

(***************************************************************************)
(* Further claims about the retried, memoized fetch.                       *)
(***************************************************************************)
\* C26: the outcome of a fetch whose retries were all used up is never
\* memoized: no entry of the cache holds an empty result, and a call made
\* while such an outcome is less than 300 seconds old makes a fresh remote
\* attempt.
C26_ExhaustionNotMemoized ==
    /\ \A k \in Keys : cache[k] # NoEntry => IsTable(cache[k].value)
    /\ (last.kind # "none" /\ last.age >= 0 /\ last.age < 300 /\ ~IsTable(last.memo)) =>
          (~last.hit /\ last.calls >= 1)

\* the attempts of the last call up to the first one that raised something
\* other than a request error
RaisedOther == Fetched /\ \E i \in 1..Len(last.outs) : last.outs[i] = "OtherException"

\* C27: an exception of the wrapped function that is not a request error
\* reaches the caller on the attempt that raised it: the attempts before it
\* were request errors, each followed by one sleep, and nothing is slept or
\* invoked after it.
C27_OtherExceptionPropagates ==
    RaisedOther =>
        /\ last.kind = "raise" /\ last.exc = "OtherException"
        /\ last.outs[last.calls] = "OtherException"
        /\ \A i \in 1..(last.calls - 1) : last.outs[i] = "RequestException"
        /\ Len(last.sleeps) = last.calls - 1

C27_Witness ==
    /\ RaisedOther
    /\ last.outs = <<"RequestException", "OtherException">>
    /\ last.sleeps = <<30>>
    /\ last.kind = "raise"

(***************************************************************************)
(* Frame of TeamGameData.get_team_games on the local files.                *)
(***************************************************************************)
\* the step is a call of get_team_games
IsGetTeamGames == ncalls' = ncalls + 1

\* C28: get_team_games never overwrites an existing local file: every path
\* it writes held no file before the call, the raw and interim paths are
\* written only when no file was there, and a call served from a local file
\* writes nothing.
C28_NeverOverwrites ==
    [][IsGetTeamGames =>
          /\ \A p \in glast'.wrote : ~files[p].exists
          /\ \A p \in Paths : files[p].exists => files'[p] = files[p]
          /\ (glast'.load /\ glast'.existed) => (glast'.wrote = {} /\ files' = files)]_vars

\* C28, for calls whose fetch yields a table
C28_TablesNeverOverwrite ==
    [][(IsGetTeamGames /\ (glast'.fetches = 0 \/ IsTable(glast'.fetched))) =>
          /\ \A p \in glast'.wrote : ~files[p].exists
          /\ \A p \in Paths : files[p].exists => files'[p] = files[p]
          /\ (glast'.load /\ glast'.existed) => (glast'.wrote = {} /\ files' = files)]_vars

(***************************************************************************)
(* TeamGameDataWrangler.__init__, statement by statement.  An attribute    *)
(* that may be None is [none, ids].                                        *)
(***************************************************************************)
NoneIds == [none |-> TRUE, ids |-> <<>>]
Ids(ids) == [none |-> FALSE, ids |-> ids]

NoConstruct == [op |-> "none", stage |-> "none", team_ids |-> Ids(<<>>), existed |-> FALSE,
                metadata |-> <<>>, kind |-> "none", exc |-> None]

\* TeamDataCleaner.extract_team_ids
extract_team_ids(metadata) == [i \in DOMAIN metadata |-> metadata[i].id]

\* TeamDataWrangler.wrangle_team_data: the four sidecars of the metadata
wrangle_team_data(f, metadata) ==
    LET obj(k, v) == [kind |-> k, version |-> 1, ids |-> v]
        team_id_map == create_team_id_map(metadata)
    IN (pickle_pth(SaverArgs.team_metadata) :> obj("team_metadata", metadata)) @@
       (pickle_pth(SaverArgs.team_ids) :> obj("team_ids", extract_team_ids(metadata))) @@
       (pickle_pth(SaverArgs.team_id_map) :> obj("team_id_map", team_id_map)) @@
       (pickle_pth(SaverArgs.team_abbreviation_map) :>
            obj("team_abbreviation_map", create_team_abbreviation_map(team_id_map))) @@ f

\* super().__init__() and the retriever, saver and loader: team_ids = []
ConstructWrangler ==
    /\ glast.kind = "none"
    /\ glast' = [NoConstruct EXCEPT !.op = "TeamGameDataWrangler", !.kind = "running",
                                    !.stage = "get_team_ids"]
    /\ UNCHANGED <<retrieverVars, gcache, files, statVars, auxVars>>

\* self.team_ids = self._get_team_ids(): the loaded list, or, when the file
\* is missing, wrangle_team_data() and then the None that was loaded; the
\* metadata is None when the fetch used up its retries
GetTeamIds ==
    /\ glast.kind = "running" /\ glast.stage = "get_team_ids"
    /\ \E team_ids \in {load_data(files, LoaderArgs.team_ids)} :
         IF team_ids # NoObj
         THEN /\ glast' = [glast EXCEPT !.team_ids = Ids(team_ids.ids), !.existed = TRUE,
                                        !.stage = "cleaner"]
              /\ files' = files
         ELSE \E fetched \in BOOLEAN, metadata \in MetadataLists :
                IF ~fetched
                THEN \* extract_team_ids iterates over None
                     /\ glast' = [glast EXCEPT !.kind = "raised", !.exc = "TypeError"]
                     /\ files' = (pickle_pth(SaverArgs.team_metadata) :> NoObj) @@ files
                ELSE /\ glast' = [glast EXCEPT !.team_ids = NoneIds, !.metadata = metadata,
                                               !.stage = "cleaner"]
                     /\ files' = wrangle_team_data(files, metadata)
    /\ UNCHANGED <<retrieverVars, gcache, statVars, auxVars>>

\* self.cleaner = TeamGameDataCleaner(team_ids=self.team_ids): its __init__
\* reads self.loader.load_inputation_map, which TeamGameDataLoader does not
\* define
MakeCleaner ==
    /\ glast.kind = "running" /\ glast.stage = "cleaner"
    /\ glast' = [glast EXCEPT !.kind = "raised", !.exc = "AttributeError"]
    /\ UNCHANGED <<retrieverVars, gcache, files, statVars, auxVars>>

\* the next construction, on the files that are there by then
NextConstruct ==
    /\ glast.kind = "raised"
    /\ glast' = NoConstruct
    /\ UNCHANGED <<retrieverVars, gcache, files, statVars, auxVars>>

InitConstruct ==
    /\ gcache = [k \in Keys |-> NoEntry]
    /\ files = NoDisk
    /\ glast = NoConstruct

InitN == InitRetriever /\ InitConstruct /\ InitIdleStats /\ InitIdleAux
NextN == ConstructWrangler \/ GetTeamIds \/ MakeCleaner \/ NextConstruct
SpecConstruct == InitN /\ [][NextN]_vars

\* line 93 of the constructor has run
TeamIdsAssigned == glast.op = "TeamGameDataWrangler" /\ glast.stage = "cleaner"

\* C29: once the constructor has set team_ids, it is the list loaded from
\* the file when the file exists and otherwise the list made from the
\* freshly fetched metadata; it is never None.
C29_TeamIdsNeverNone ==
    TeamIdsAssigned =>
        /\ ~glast.team_ids.none
        /\ ~glast.existed => glast.team_ids.ids = extract_team_ids(glast.metadata)

\* C29, the case of an existing file: team_ids is the list it holds
C29_TeamIdsFromFile ==
    (TeamIdsAssigned /\ glast.existed) =>
        glast.team_ids = Ids(load_data(files, LoaderArgs.team_ids).ids)

(***************************************************************************)
(* Claim about the pool size.                                              *)
(***************************************************************************)
MaxRequested == 8
MaxCpu == 70

\* C30: the pool size computed by the fan-outs equals the requested
\* max_workers for every positive request and every CPU count, the unknown
\* one included; the number of tasks running at once is bounded by the
\* request alone.
C30_WorkerCountIsRequested ==
    /\ \A w \in 1..MaxRequested, cpu \in 0..MaxCpu : worker_count(w, cpu) = w
    /\ pool.pc = "waiting" =>
          /\ pool.max_workers = pool.requested
          /\ Cardinality(Running(pool.tasks)) <= pool.requested

C30_Witness ==
    /\ pool.pc = "waiting"
    /\ pool.requested = MaxWorkers
    /\ pool.cpu_count = 1
    /\ Cardinality(Running(pool.tasks)) = 2
====
